---- MODULE Spec2Model ----
(***************************************************************************)
(* A model of the URL-rewriting reverse proxy of src/app.js: origin        *)
(* resolution, the candidate loop over the proxyTargets cookie, the        *)
(* process-wide rate limiter and the response handler.                     *)
(*                                                                         *)
(* Strings are sequences of one-character strings, so that the string      *)
(* operations of the code (startsWith, split, replace, join, includes,     *)
(* regular-expression tests) are computed character by character.          *)
(***************************************************************************)
EXTENDS Integers, Sequences, FiniteSets, TLC

(***************************************************************************)
(* Program constants (src/app.js:8-12).                                    *)
(***************************************************************************)
\* 'https://www.example.com'
fallBackDomain == <<"h", "t", "t", "p", "s", ":", "/", "/", "w", "w", "w", ".", "e", "x", "a", "m", "p", "l", "e", ".", "c", "o", "m">>
rateLimitWindow == 3000
rateLimitCount == 10

(***************************************************************************)
(* Bounds of the model.                                                    *)
(***************************************************************************)
\* The clock never passes MaxTime (ms); each Tick advances it by TickMs.
MaxTime == 6000
TickMs == 1500
\* Requests that arrive in the rate-limit workload (SpecRate): a burst of
\* rateLimitCount + 1 and the request that follows it.
MaxBurst == 12

(***************************************************************************)
(* String literals used by the code.                                       *)
(***************************************************************************)
\* '/http.'
HttpPrefix == <<"/", "h", "t", "t", "p", ".">>
\* '/https.'
HttpsPrefix == <<"/", "h", "t", "t", "p", "s", ".">>
\* '://'
SchemeSep == <<":", "/", "/">>
\* 'html'
HtmlWord == <<"h", "t", "m", "l">>
\* 'GET', 'HEAD', 'TRACE'
BodylessMethods == {"GET", "HEAD", "TRACE"}

(***************************************************************************)
(* JavaScript string primitives.                                           *)
(***************************************************************************)
\* s.startsWith(p)
StartsWith(s, p) == Len(s) >= Len(p) /\ SubSeq(s, 1, Len(p)) = p

\* s.substring(k) with a 0-based k
Substring(s, k) == SubSeq(s, k + 1, Len(s))

\* the 1-based index of the first character of s that lies in cs, or 0
FirstIn(s, cs) ==
    IF \E i \in 1..Len(s) : s[i] \in cs
    THEN CHOOSE i \in 1..Len(s) : s[i] \in cs /\ \A j \in 1..(i - 1) : s[j] \notin cs
    ELSE 0

\* s.split(c) for a one-character separator c
RECURSIVE Split(_, _)
Split(s, c) ==
    LET i == FirstIn(s, {c})
    IN  IF i = 0 THEN <<s>>
        ELSE <<SubSeq(s, 1, i - 1)>> \o Split(SubSeq(s, i + 1, Len(s)), c)

\* parts.join(c)
RECURSIVE Join(_, _)
Join(parts, c) ==
    IF Len(parts) = 0 THEN <<>>
    ELSE IF Len(parts) = 1 THEN parts[1]
    ELSE parts[1] \o <<c>> \o Join(Tail(parts), c)

\* s.replace(c, rep) with a string pattern: only the first occurrence
ReplaceFirst(s, c, rep) ==
    LET i == FirstIn(s, {c})
    IN  IF i = 0 THEN s
        ELSE SubSeq(s, 1, i - 1) \o rep \o SubSeq(s, i + 1, Len(s))

\* s.includes(sub)
Includes(s, sub) ==
    \E i \in 0..(Len(s) - Len(sub)) : SubSeq(s, i + 1, i + Len(sub)) = sub

(***************************************************************************)
(* getAbsoluteProxyTarget (src/app.js:93-97).                              *)
(***************************************************************************)
\* Variant: the origin segment is not cut out of the url.
getAbsoluteProxyTargetKeepUrl(url) ==
    LET parts == Split(Substring(url, 1), "/")
    IN  [proxyTarget |-> ReplaceFirst(Head(parts), ".", SchemeSep),
         modifiedUrl |-> url]

getAbsoluteProxyTarget(url) ==
    LET parts == Split(Substring(url, 1), "/")
    IN  [proxyTarget |-> ReplaceFirst(Head(parts), ".", SchemeSep),
         modifiedUrl |-> <<"/">> \o Join(Tail(parts), "/")]

(***************************************************************************)
(* urlValidationRegex (src/app.js:75-84), an anchored match:               *)
(*   ^https?://userInfo?host port? path query? fragment?$   (flag i)       *)
(* The classes of the component expressions (src/app.js:15, 43, 56-59).    *)
(***************************************************************************)
LowerChars == {"a", "b", "c", "d", "e", "f", "g", "h", "i", "j", "k", "l", "m", "n", "o", "p", "q", "r", "s", "t", "u", "v", "w", "x", "y", "z"}
UpperChars == {"A", "B", "C", "D", "E", "F", "G", "H", "I", "J", "K", "L", "M", "N", "O", "P", "Q", "R", "S", "T", "U", "V", "W", "X", "Y", "Z"}
DigitChars == {"0", "1", "2", "3", "4", "5", "6", "7", "8", "9"}
\* \w
WordChars == LowerChars \cup UpperChars \cup DigitChars \cup {"_"}
\* [\w~.\-!$&'()*+,;=%]
RegNameChars == WordChars \cup {"~", ".", "-", "!", "$", "&", "'", "(", ")", "*", "+", ",", ";", "=", "%"}
\* [\w~.\-!$&'()*+,;=%:]
UserInfoChars == RegNameChars \cup {":"}
\* [\w~.\-!$&'()*+,;=%:@]
PathChars == RegNameChars \cup {":", "@"}
\* [\w~.\-!$&'()*+,;=%:@/?]
QueryChars == PathChars \cup {"/", "?"}

AllIn(s, cs) == \A i \in 1..Len(s) : s[i] \in cs

\* (?<protocol>https?:) under flag i: the length of the match at the start of s, or 0
ProtocolLen(s) ==
    LET isCh(i, lo, up) == Len(s) >= i /\ s[i] \in {lo, up}
        http == isCh(1, "h", "H") /\ isCh(2, "t", "T") /\ isCh(3, "t", "T") /\ isCh(4, "p", "P")
    IN  IF http /\ isCh(5, ":", ":") THEN 5
        ELSE IF http /\ isCh(5, "s", "S") /\ isCh(6, ":", ":") THEN 6
        ELSE 0

\* (?<host>...) (?<port>:\d*)? on what follows the user info.  The IP-literal
\* alternatives of urlHostRegex need a "[", which no origin of this model
\* contains; a dotted-quad is also a reg-name, so reg-name decides the match.
HostPortMatches(hp) ==
    LET c == FirstIn(hp, {":"})
        host == IF c = 0 THEN hp ELSE SubSeq(hp, 1, c - 1)
        port == IF c = 0 THEN <<>> ELSE SubSeq(hp, c + 1, Len(hp))
    IN  Len(host) >= 1 /\ AllIn(host, RegNameChars) /\ AllIn(port, DigitChars)

\* userInfo? host port?
AuthorityMatches(auth) ==
    LET a == FirstIn(auth, {"@"})
    IN  IF a = 0 THEN HostPortMatches(auth)
        ELSE /\ AllIn(SubSeq(auth, 1, a - 1), UserInfoChars)
             /\ HostPortMatches(SubSeq(auth, a + 1, Len(auth)))

\* path query? fragment?$
TailMatches(t) ==
    LET h == FirstIn(t, {"#"})
        pq == IF h = 0 THEN t ELSE SubSeq(t, 1, h - 1)
        fragment == IF h = 0 THEN <<>> ELSE SubSeq(t, h + 1, Len(t))
        q == FirstIn(pq, {"?"})
        path == IF q = 0 THEN pq ELSE SubSeq(pq, 1, q - 1)
        query == IF q = 0 THEN <<>> ELSE SubSeq(pq, q + 1, Len(pq))
    IN  /\ AllIn(fragment, QueryChars)
        /\ AllIn(query, QueryChars)
        /\ AllIn(path, PathChars \cup {"/"})
        /\ (Len(path) > 0 => path[1] = "/")

\* s.search(urlValidationRegex) !== -1
urlValidationRegex(s) ==
    LET n == ProtocolLen(s)
        r == Substring(s, n)
        afterSlashes == Substring(r, 2)
        e == FirstIn(afterSlashes, {"/", "?", "#"})
        auth == IF e = 0 THEN afterSlashes ELSE SubSeq(afterSlashes, 1, e - 1)
        rest == IF e = 0 THEN <<>> ELSE SubSeq(afterSlashes, e, Len(afterSlashes))
    IN  /\ n > 0
        /\ StartsWith(r, <<"/", "/">>)
        /\ AuthorityMatches(auth)
        /\ TailMatches(rest)

(***************************************************************************)
(* checkRateLimit (src/app.js:277-294).  The queue recentRequests is       *)
(* passed in and returned with the verdict.                                *)
(***************************************************************************)
RateEntry(ip, userAgent, proxyTarget, path, time) ==
    [ip |-> ip, userAgent |-> userAgent, proxyTarget |-> proxyTarget, path |-> path, time |-> time]

\* while (recentRequests.length > 0 && now - recentRequests[0].time > rateLimitWindow) shift()
RECURSIVE ShiftExpired(_, _)
ShiftExpired(q, t) ==
    IF Len(q) > 0 /\ t - q[1].time > rateLimitWindow THEN ShiftExpired(Tail(q), t) ELSE q

\* the counting loop
CountMatching(q, ip, userAgent, proxyTarget, path) ==
    Cardinality({i \in 1..Len(q) : /\ q[i].ip = ip
                                   /\ q[i].userAgent = userAgent
                                   /\ q[i].proxyTarget = proxyTarget
                                   /\ q[i].path = path})

\* Variant: the limit is off by one.
RateLimitExceededLax(count) == count > rateLimitCount + 1

RateLimitExceeded(count) == count > rateLimitCount

\* Variant: the entry of a rejected attempt is taken out of the queue again.
checkRateLimitDropRejected(q, ip, userAgent, proxyTarget, path, t) ==
    LET kept == ShiftExpired(Append(q, RateEntry(ip, userAgent, proxyTarget, path, t)), t)
        exceeded == RateLimitExceeded(CountMatching(kept, ip, userAgent, proxyTarget, path))
    IN  [queue |-> IF exceeded THEN SubSeq(kept, 1, Len(kept) - 1) ELSE kept,
         exceeded |-> exceeded]

\* Variant: the count is taken of the queue as it was before the entry of the
\* attempt was appended (a stale read).
checkRateLimitCountFirst(q, ip, userAgent, proxyTarget, path, t) ==
    LET pushed == Append(q, RateEntry(ip, userAgent, proxyTarget, path, t))
        kept == ShiftExpired(pushed, t)
    IN  [queue |-> kept,
         exceeded |-> RateLimitExceeded(CountMatching(q, ip, userAgent, proxyTarget, path))]

checkRateLimit(q, ip, userAgent, proxyTarget, path, t) ==
    LET pushed == Append(q, RateEntry(ip, userAgent, proxyTarget, path, t))
        kept == ShiftExpired(pushed, t)
    IN  [queue |-> kept,
         exceeded |-> RateLimitExceeded(CountMatching(kept, ip, userAgent, proxyTarget, path))]

(***************************************************************************)
(* Cookie names and white space.                                           *)
(***************************************************************************)
\* 'proxyTargets'
ProxyTargetsName == <<"p", "r", "o", "x", "y", "T", "a", "r", "g", "e", "t", "s">>

\* \s, and what String.prototype.trim removes
SpaceChars == {" ", "\t", "\n", "\r", "\f"}

\* s.trim()
RECURSIVE TrimStart(_)
TrimStart(s) == IF Len(s) > 0 /\ Head(s) \in SpaceChars THEN TrimStart(Tail(s)) ELSE s

RECURSIVE TrimEnd(_)
TrimEnd(s) ==
    IF Len(s) > 0 /\ s[Len(s)] \in SpaceChars THEN TrimEnd(SubSeq(s, 1, Len(s) - 1)) ELSE s

Trim(s) == TrimEnd(TrimStart(s))

\* parts.join(sep) for a separator of any length
RECURSIVE JoinWith(_, _)
JoinWith(parts, sep) ==
    IF Len(parts) = 0 THEN <<>>
    ELSE IF Len(parts) = 1 THEN parts[1]
    ELSE parts[1] \o sep \o JoinWith(Tail(parts), sep)

\* The number of "_" the name starts with.
RECURSIVE LeadingUnderscores(_)
LeadingUnderscores(name) ==
    IF Len(name) > 0 /\ Head(name) = "_" THEN 1 + LeadingUnderscores(Tail(name)) ELSE 0

\* name.search(/^_*proxyTargets$/) !== -1  and  name.search(/^_+proxyTargets$/) !== -1
MatchesStarProxyTargets(name) ==
    SubSeq(name, LeadingUnderscores(name) + 1, Len(name)) = ProxyTargetsName

MatchesPlusProxyTargets(name) ==
    LeadingUnderscores(name) >= 1 /\ MatchesStarProxyTargets(name)

(***************************************************************************)
(* transformHeadersForRequest (src/app.js:148-185).  A header set is a     *)
(* sequence of [name, value] pairs with distinct lower-case names, in the  *)
(* order of Object.entries(req.headers).                                   *)
(***************************************************************************)
Header(name, value) == [name |-> name, value |-> value]

\* trimmed.substring(0, trimmed.indexOf('=')): the empty string without a "="
CookieNameOf(trimmed) ==
    LET i == FirstIn(trimmed, {"="})
    IN  IF i = 0 THEN <<>> ELSE SubSeq(trimmed, 1, i - 1)

\* Variant: the proxy's own cookie is forwarded like any other.
TranslateCookieKeepState(c) ==
    LET trimmed == Trim(c)
        cookieName == CookieNameOf(trimmed)
    IN  IF MatchesPlusProxyTargets(cookieName) THEN Substring(trimmed, 1)
        ELSE trimmed

\* the callback of .map over the ";"-separated cookies
TranslateCookie(c) ==
    LET trimmed == Trim(c)
        cookieName == CookieNameOf(trimmed)
    IN  IF cookieName = ProxyTargetsName THEN <<>>
        ELSE IF MatchesPlusProxyTargets(cookieName) THEN Substring(trimmed, 1)
        ELSE trimmed

\* value.split(';').map(...).filter((c) => c !== '').join('; ')
TranslateCookieHeader(value) ==
    LET parts == Split(value, ";")
        mapped == [i \in 1..Len(parts) |-> TranslateCookie(parts[i])]
    IN  JoinWith(SelectSeq(mapped, LAMBDA c : c # <<>>), <<";", " ">>)

transformHeadersForRequest(headers, proxyTarget) ==
    LET kept == SelectSeq(headers, LAMBDA h : h.name \notin {"content-length", "content-encoding", "transfer-encoding"})
    IN  [i \in 1..Len(kept) |->
            IF kept[i].name \in {"host", "origin"} THEN Header(kept[i].name, proxyTarget)
            ELSE IF kept[i].name = "cookie"
            THEN Header("cookie", TranslateCookieHeader(kept[i].value))
            ELSE kept[i]]

(***************************************************************************)
(* parseCookie (src/app.js:111-138).                                       *)
(***************************************************************************)
\* s.toLowerCase()
ToLowerCase(s) ==
    LET lower == <<"a", "b", "c", "d", "e", "f", "g", "h", "i", "j", "k", "l", "m",
                   "n", "o", "p", "q", "r", "s", "t", "u", "v", "w", "x", "y", "z">>
        upper == <<"A", "B", "C", "D", "E", "F", "G", "H", "I", "J", "K", "L", "M",
                   "N", "O", "P", "Q", "R", "S", "T", "U", "V", "W", "X", "Y", "Z">>
        toLower(ch) == IF \E i \in 1..Len(upper) : upper[i] = ch
                       THEN lower[CHOOSE i \in 1..Len(upper) : upper[i] = ch] ELSE ch
    IN  [i \in 1..Len(s) |-> toLower(s[i])]

\* One ";"-separated attribute: ;(?<attrName>[^;=]*)(?:=(?<attrValue>[^;]+))?
\* An attribute with "=" and nothing after it matches neither this nor "$".
AttrMatches(seg) ==
    LET i == FirstIn(seg, {"="})
    IN  i = 0 \/ i < Len(seg)

\* The entry of options an attribute gives: the name trimmed and lower-cased
\* ('samesite' and 'httponly' get their camel spelling), true without a value,
\* else the trimmed value.  The cookies of this model carry no Max-Age and no
\* Expires, whose values the code converts to a number and a Date.
AttrEntry(seg) ==
    LET i == FirstIn(seg, {"="})
        rawName == IF i = 0 THEN seg ELSE SubSeq(seg, 1, i - 1)
        camel(name) ==
            IF name = <<"s", "a", "m", "e", "s", "i", "t", "e">>
            THEN <<"s", "a", "m", "e", "S", "i", "t", "e">>
            ELSE IF name = <<"h", "t", "t", "p", "o", "n", "l", "y">>
            THEN <<"h", "t", "t", "p", "O", "n", "l", "y">>
            ELSE name
    IN  [name |-> camel(ToLowerCase(Trim(rawName))),
         flag |-> i = 0,
         value |-> IF i = 0 THEN <<>> ELSE Trim(SubSeq(seg, i + 1, Len(seg)))]

\* undefined
NoCookie == [ok |-> FALSE, name |-> <<>>, value |-> <<>>, options |-> <<>>]

\* ^\s*(?<name>[^\s;=][^;=]*)=(?<value>[^;]*)(?:;attr)*$
parseCookie(cookie) ==
    LET s == TrimStart(cookie)
        e == FirstIn(s, {"=", ";"})
        afterName == SubSeq(s, e + 1, Len(s))
        v == FirstIn(afterName, {";"})
        value == IF v = 0 THEN afterName ELSE SubSeq(afterName, 1, v - 1)
        segs == IF v = 0 THEN <<>> ELSE Split(SubSeq(afterName, v + 1, Len(afterName)), ";")
    IN  IF e < 2 \/ s[e] # "=" THEN NoCookie
        ELSE IF \E i \in 1..Len(segs) : ~AttrMatches(segs[i]) THEN NoCookie
        ELSE [ok |-> TRUE,
              name |-> Trim(SubSeq(s, 1, e - 1)),
              value |-> Trim(value),
              options |-> [i \in 1..Len(segs) |-> AttrEntry(segs[i])]]

(***************************************************************************)
(* transformHeadersForResponse (src/app.js:195-242).  It works on the      *)
(* express response: `headers` is what res.set has stored, `cookies` the   *)
(* Set-Cookie headers res.cookie has appended, in order.                   *)
(***************************************************************************)
\* if (parsedCookie.options.domain) parsedCookie.options.domain = proxyTarget.split(':')[0]
RewriteDomain(options, proxyTarget) ==
    [i \in 1..Len(options) |->
        IF options[i].name = <<"d", "o", "m", "a", "i", "n">> /\ ~options[i].flag
        THEN [options[i] EXCEPT !.value = Head(Split(proxyTarget, ":"))]
        ELSE options[i]]

\* Variant: the name of an upstream cookie is never escaped.
EscapeCookieNameNever(name) == name

\* Variant: only the exact name proxyTargets is escaped.
EscapeCookieNameExactOnly(name) ==
    IF name = ProxyTargetsName THEN <<"_">> \o name ELSE name

\* if (name.search(/^_*proxyTargets$/) !== -1) name = '_' + name
EscapeCookieName(name) ==
    IF MatchesStarProxyTargets(name) THEN <<"_">> \o name ELSE name

\* res.cookie(name, value, options)
ResCookie(cookies, name, value, options) ==
    Append(cookies, [name |-> name, value |-> value, options |-> options])

\* The tail of the fixed policy: `report-uri http://${proxyTarget}/debug/csp`
\* (the directives before it do not depend on anything).
PolicyFor(proxyTarget) ==
    <<"r", "e", "p", "o", "r", "t", "-", "u", "r", "i", " ", "h", "t", "t", "p", ":", "/", "/">>
        \o proxyTarget \o <<"/", "d", "e", "b", "u", "g", "/", "c", "s", "p">>

\* res.set(name, value): the header replaces one of the same name
ResSet(headers, name, value) ==
    SelectSeq(headers, LAMBDA h : h.name # name) \o <<Header(name, value)>>

\* One pass of the for loop.
TranslateResponseHeader(out, h, proxyTarget) ==
    IF h.name = "set-cookie"
    THEN LET parsedCookie == parseCookie(h.value)
         IN  IF ~parsedCookie.ok THEN out
             ELSE [out EXCEPT !.cookies =
                      ResCookie(@, EscapeCookieName(parsedCookie.name), parsedCookie.value,
                                RewriteDomain(parsedCookie.options, proxyTarget))]
    ELSE IF h.name \in {"content-security-policy", "content-security-policy-report-only"}
    THEN [out EXCEPT !.headers = ResSet(@, h.name, PolicyFor(proxyTarget))]
    ELSE IF h.name \in {"content-length", "content-encoding", "transfer-encoding", "connection"}
    THEN out
    ELSE [out EXCEPT !.headers = ResSet(@, h.name, h.value)]

RECURSIVE TranslateResponseHeaders(_, _, _)
TranslateResponseHeaders(out, headers, proxyTarget) ==
    IF Len(headers) = 0 THEN out
    ELSE TranslateResponseHeaders(TranslateResponseHeader(out, Head(headers), proxyTarget),
                                  Tail(headers), proxyTarget)

transformHeadersForResponse(headers, out, proxyTarget) ==
    LET done == TranslateResponseHeaders(out, headers, proxyTarget)
    IN  [done EXCEPT !.headers = ResSet(@, "access-control-allow-origin", <<"*">>)]

(***************************************************************************)
(* urlReplacementRegex (src/app.js:61-73), flags g and i:                  *)
(*   not preceded by a backslash or by xmlns\s*=\s*\S{0,6}, then          *)
(*   protocol? delimiter \k<delimiter> userInfo? host port?                *)
(*   path query? fragment?                                                 *)
(* where path is any number of \k<delimiter> each followed by path chars.  *)
(* A match is computed as the backtracking matcher finds it: greedy, the   *)
(* optional parts tried first with and then without.  Of the alternatives  *)
(* of urlHostRegex the reg-name is modelled: the IP literals need a "["    *)
(* and the IPv4 address a digit where the host starts, and the hosts of    *)
(* the texts of this model start with a letter.                            *)
(***************************************************************************)
\* s[i], or "" beyond the ends
At(s, i) == IF i >= 1 /\ i <= Len(s) THEN s[i] ELSE ""

\* The literal lit stands at position i of s, upper or lower case.
LiteralAt(s, i, lit) ==
    /\ i >= 1 /\ i + Len(lit) - 1 <= Len(s)
    /\ ToLowerCase(SubSeq(s, i, i + Len(lit) - 1)) = ToLowerCase(lit)

\* The number of characters of class cs that follow one another from position i.
RECURSIVE RunLen(_, _, _)
RunLen(s, i, cs) == IF At(s, i) \in cs THEN 1 + RunLen(s, i + 1, cs) ELSE 0

\* (?<delimiter>\/|\\\/|\\u002f): the delimiter at position i as the text
\* spells it, or the empty string
DelimiterAt(s, i) ==
    IF At(s, i) = "/" THEN <<"/">>
    ELSE IF LiteralAt(s, i, <<"\\", "/">>) THEN SubSeq(s, i, i + 1)
    ELSE IF LiteralAt(s, i, <<"\\", "u", "0", "0", "2", "f">>) THEN SubSeq(s, i, i + 5)
    ELSE <<>>

\* \s*: the last position at or before p that holds no white space (0 if none)
RECURSIVE SkipSpacesBack(_, _)
SkipSpacesBack(s, p) ==
    IF p >= 1 /\ s[p] \in SpaceChars THEN SkipSpacesBack(s, p - 1) ELSE p

\* xmlns\s*=\s*\S{0,6} ends right before position i
PrecededByXmlns(s, i) ==
    \E k \in 0..6 :
        /\ k <= i - 1
        /\ \A j \in (i - k)..(i - 1) : s[j] \notin SpaceChars
        /\ LET q == SkipSpacesBack(s, i - k - 1)
               n == SkipSpacesBack(s, q - 1)
           IN  /\ At(s, q) = "="
               /\ LiteralAt(s, n - 4, <<"x", "m", "l", "n", "s">>)

\* (?<!\\|xmlns\s*=\s*\S{0,6})
LookbehindAllows(s, i) == At(s, i - 1) # "\\" /\ ~PrecededByXmlns(s, i)

\* (?<path>...) from position i: any number of \k<delimiter> each followed by
\* characters of the path class; the position where it ends
RECURSIVE PathEnd(_, _, _)
PathEnd(s, i, d) ==
    IF LiteralAt(s, i, d)
    THEN PathEnd(s, i + Len(d) + RunLen(s, i + Len(d), PathChars), d)
    ELSE i

NoMatch ==
    [ok |-> FALSE, end |-> 0, protocol |-> <<>>, delimiter |-> <<>>, userInfo |-> <<>>,
     host |-> <<>>, port |-> <<>>, path |-> <<>>, query |-> <<>>, fragment |-> <<>>]

\* host port? path query? fragment? from position h; the groups before it are
\* given.  `end` is the position after the match.
HostOnward(s, h, protocol, d, userInfo) ==
    LET hostEnd == h + RunLen(s, h, RegNameChars)
        portEnd == IF At(s, hostEnd) = ":" THEN hostEnd + 1 + RunLen(s, hostEnd + 1, DigitChars)
                   ELSE hostEnd
        pathEnd == PathEnd(s, portEnd, d)
        queryEnd == IF At(s, pathEnd) = "?" THEN pathEnd + 1 + RunLen(s, pathEnd + 1, QueryChars)
                    ELSE pathEnd
        fragmentEnd == IF At(s, queryEnd) = "#"
                       THEN queryEnd + 1 + RunLen(s, queryEnd + 1, QueryChars)
                       ELSE queryEnd
    IN  IF hostEnd = h THEN NoMatch
        ELSE [ok |-> TRUE, end |-> fragmentEnd, protocol |-> protocol, delimiter |-> d,
              userInfo |-> userInfo,
              host |-> SubSeq(s, h, hostEnd - 1),
              port |-> SubSeq(s, hostEnd, portEnd - 1),
              path |-> SubSeq(s, portEnd, pathEnd - 1),
              query |-> SubSeq(s, pathEnd, queryEnd - 1),
              fragment |-> SubSeq(s, queryEnd, fragmentEnd - 1)]

\* delimiter \k<delimiter> userInfo? host ... from position j
DelimiterOnward(s, j, protocol) ==
    LET d == DelimiterAt(s, j)
        k == j + 2 * Len(d)
        u == RunLen(s, k, UserInfoChars)
        withUser == HostOnward(s, k + u + 1, protocol, d, SubSeq(s, k, k + u))
    IN  IF d = <<>> \/ ~LiteralAt(s, j + Len(d), d) THEN NoMatch
        ELSE IF At(s, k + u) = "@" /\ withUser.ok THEN withUser
        ELSE HostOnward(s, k, protocol, d, <<>>)

\* The match of urlReplacementRegex that starts at position i, if there is one.
UrlMatchAt(s, i) ==
    LET n == ProtocolLen(SubSeq(s, i, Len(s)))
        withProtocol == DelimiterOnward(s, i + n, SubSeq(s, i, i + n - 1))
    IN  IF ~LookbehindAllows(s, i) THEN NoMatch
        ELSE IF n > 0 /\ withProtocol.ok THEN withProtocol
        ELSE DelimiterOnward(s, i, <<>>)

(***************************************************************************)
(* injectProxyTarget (src/app.js:251-267).                                 *)
(***************************************************************************)
\* groups.protocol?.replace(':', '.') || 'http.'
ProtocolWire(protocol) ==
    IF protocol = <<>> THEN <<"h", "t", "t", "p", ".">> ELSE ReplaceFirst(protocol, ":", <<".">>)

\* Variant: the replacement of a URL without a scheme has no scheme prefix.
ReplacementSchemeless(m, proxyDomain) ==
    (IF m.protocol = <<>> THEN <<>> ELSE <<"h", "t", "t", "p", ":">>)
        \o m.delimiter \o m.delimiter \o proxyDomain \o m.delimiter
        \o ProtocolWire(m.protocol) \o m.userInfo \o m.host \o m.port
        \o m.path \o m.query \o m.fragment

\* The replacement of one match (the callback of html.replace).
Replacement(m, proxyDomain) ==
    <<"h", "t", "t", "p", ":">> \o m.delimiter \o m.delimiter \o proxyDomain
        \o m.delimiter
        \o ProtocolWire(m.protocol) \o m.userInfo \o m.host \o m.port
        \o m.path
        \o m.query
        \o m.fragment

\* html.replace(urlReplacementRegex, ...) from position i on: every match, found
\* from left to right, is replaced; the search goes on after the match.  (m
\* ranges over a set of one element, so that the match at i is computed once.)
RECURSIVE ReplaceFrom(_, _, _)
ReplaceFrom(html, i, proxyDomain) ==
    IF i > Len(html) THEN <<>>
    ELSE CHOOSE result \in
             {IF m.ok THEN Replacement(m, proxyDomain) \o ReplaceFrom(html, m.end, proxyDomain)
              ELSE <<html[i]>> \o ReplaceFrom(html, i + 1, proxyDomain) :
                 m \in {UrlMatchAt(html, i)}} : TRUE

injectProxyTarget(html, proxyDomain) == ReplaceFrom(html, 1, proxyDomain)

(***************************************************************************)
(* Inputs: the requests clients send and the answers upstreams give.       *)
(***************************************************************************)
Clients == {1, 2}

\* 'http://a', 'https://b' and 'b' (a cookie entry that is no URL)
OriginA == <<"h", "t", "t", "p", ":", "/", "/", "a">>
OriginB == <<"h", "t", "t", "p", "s", ":", "/", "/", "b">>
OriginC == <<"b">>
\* '/', '/p?q', '/http.a/p', '/https.b', '/http./p', '/https'
UrlRoot == <<"/">>
UrlPathQuery == <<"/", "p", "?", "q">>
UrlExplicitA == <<"/", "h", "t", "t", "p", ".", "a", "/", "p">>
UrlExplicitB == <<"/", "h", "t", "t", "p", "s", ".", "b">>
UrlExplicitEmptyHost == <<"/", "h", "t", "t", "p", ".", "/", "p">>
UrlHttpNoDot == <<"/", "h", "t", "t", "p", "s">>
\* 'text/html', 'image/png'
TypeHtml == <<"t", "e", "x", "t", "/", "h", "t", "m", "l">>
TypePng == <<"i", "m", "a", "g", "e", "/", "p", "n", "g">>

\* The raw proxyTargets cookie of a request: absent, a JSON array of strings,
\* or text that is not JSON.
CookieAbsent == [kind |-> "absent", list |-> <<>>]
CookieJson(list) == [kind |-> "json", list |-> list]
CookieMalformed == [kind |-> "malformed", list |-> <<>>]

Shape(method, url, ip, userAgent, cookie) ==
    [method |-> method, url |-> url, ip |-> ip, userAgent |-> userAgent, cookie |-> cookie]

\* The requests of the dispatch workload (Spec).
DispatchShapes ==
    {Shape("GET", UrlRoot, "ip1", "ua1", CookieJson(l)) :
        l \in {<<OriginA>>, <<OriginA, OriginB>>, <<OriginA, OriginA, OriginB>>,
               <<OriginB, OriginA, OriginB>>, <<OriginA, OriginC>>}}
    \cup {Shape("POST", UrlPathQuery, "ip1", "ua1", CookieJson(<<OriginB, OriginA>>))}
    \cup {Shape("GET", u, "ip1", "ua1", c) :
            u \in {UrlExplicitA, UrlExplicitB},
            c \in {CookieAbsent, CookieJson(<<OriginA, OriginB>>)}}
    \cup {Shape("POST", UrlExplicitA, "ip1", "ua1", CookieJson(<<OriginB>>)),
          Shape("GET", UrlExplicitEmptyHost, "ip1", "ua1", CookieJson(<<OriginA>>)),
          Shape("GET", UrlPathQuery, "ip1", "ua1", CookieAbsent),
          Shape("GET", UrlHttpNoDot, "ip1", "ua1", CookieJson(<<>>)),
          Shape("GET", UrlRoot, "ip1", "ua1", CookieMalformed),
          \* the request of the earlier burst with another User-Agent, and with a query
          Shape("GET", UrlRoot, "ip1", "ua2", CookieJson(<<OriginA>>)),
          Shape("GET", UrlRoot \o <<"?", "q">>, "ip1", "ua1", CookieJson(<<OriginA>>))}

\* The requests of the concurrent workload (SpecPair): two candidates.
PairShapes == {Shape("GET", UrlRoot, "ip1", "ua1", CookieJson(<<OriginA, OriginB>>))}

\* The requests of the rate-limit workload (SpecRate): a burst of one request.
RateShapes == {Shape("GET", UrlRoot, "ip1", "ua1", CookieJson(<<OriginA, OriginB>>))}

\* What an upstream may answer: a status, and a Content-Type or none.
NoType == [hasType |-> FALSE, type |-> <<>>]
SomeType(t) == [hasType |-> TRUE, type |-> t]
\* It may also carry other headers (Set-Cookie among them), a Content-Length
\* (absent when the body is sent chunked) and a body.
AnswerWith(status, ct, headers, hasLength, body) ==
    [status |-> status, ct |-> ct, headers |-> headers, hasLength |-> hasLength, body |-> body]
Answer(status, ct) == AnswerWith(status, ct, <<>>, FALSE, <<>>)

\* An upstream's Set-Cookie: proxyTargets=evil
SetCookieClash == Header("set-cookie", ProxyTargetsName \o <<"=", "e", "v", "i", "l">>)

\* Answers that set cookies.  Their other Set-Cookie headers are 'sid=1; Path=/',
\* '_proxyTargets=x', 'bad' (no cookie) and 'proxyTargets = y;Domain=b'; one
\* carries Content-Security-Policy: default-src 'none'.
CookieAnswers ==
    LET plain == Header("set-cookie",
                        <<"s", "i", "d", "=", "1", ";", " ", "P", "a", "t", "h", "=", "/">>)
        escaped == Header("set-cookie", <<"_">> \o ProxyTargetsName \o <<"=", "x">>)
        bad == Header("set-cookie", <<"b", "a", "d">>)
        spaced == Header("set-cookie",
                         ProxyTargetsName
                             \o <<" ", "=", " ", "y", ";", "D", "o", "m", "a", "i", "n", "=", "b">>)
        policy == Header("content-security-policy",
                         <<"d", "e", "f", "a", "u", "l", "t", "-", "s", "r", "c", " ",
                           "'", "n", "o", "n", "e", "'">>)
    IN  {AnswerWith(200, SomeType(TypeHtml), <<SetCookieClash, plain>>, FALSE, <<>>),
         AnswerWith(200, NoType, <<escaped, policy, bad>>, FALSE, <<>>),
         AnswerWith(404, SomeType(TypePng), <<spaced, SetCookieClash>>, FALSE, <<>>)}

\* 'image/svg+xml'
TypeSvg == <<"i", "m", "a", "g", "e", "/", "s", "v", "g", "+", "x", "m", "l">>

\* The body of an answer of the body workload: 'see https://b/x'
BodyWithUrl == <<"s", "e", "e", " ", "h", "t", "t", "p", "s", ":", "/", "/", "b", "/", "x">>

\* The answers of the body workload (SpecBody): each has a body, sent with a
\* Content-Length, or chunked without one ('image/png' and 'text/plain').  The
\* content types are 'image/svg+xml', 'text/plain', 'image/png',
\* 'application/xhtml+xml', 'text/css', 'text/x-scss', 'application/javascript',
\* 'application/json', 'application/pdf' and 'TEXT/HTML'.
BodyAnswers ==
    LET plain == <<"t", "e", "x", "t", "/", "p", "l", "a", "i", "n">>
        types ==
            {TypeSvg, plain, TypePng,
             <<"a", "p", "p", "l", "i", "c", "a", "t", "i", "o", "n", "/", "x", "h", "t", "m", "l", "+", "x", "m", "l">>,
             <<"t", "e", "x", "t", "/", "c", "s", "s">>,
             <<"t", "e", "x", "t", "/", "x", "-", "s", "c", "s", "s">>,
             <<"a", "p", "p", "l", "i", "c", "a", "t", "i", "o", "n", "/", "j", "a", "v", "a", "s", "c", "r", "i", "p", "t">>,
             <<"a", "p", "p", "l", "i", "c", "a", "t", "i", "o", "n", "/", "j", "s", "o", "n">>,
             <<"a", "p", "p", "l", "i", "c", "a", "t", "i", "o", "n", "/", "p", "d", "f">>,
             <<"T", "E", "X", "T", "/", "H", "T", "M", "L">>}
    IN  {AnswerWith(200, SomeType(t), <<>>, TRUE, BodyWithUrl) : t \in types}
            \cup {AnswerWith(200, SomeType(t), <<>>, FALSE, BodyWithUrl) : t \in {TypePng, plain}}

UpstreamAnswers ==
    {Answer(200, SomeType(TypeHtml)), Answer(200, SomeType(TypePng)), Answer(200, NoType),
     Answer(304, NoType), Answer(404, SomeType(TypeHtml)), Answer(503, NoType)}
        \cup CookieAnswers
\* The answers of the concurrent workload carry no body.
BodylessAnswers == {Answer(200, NoType), Answer(503, NoType)}
\* The answers of the rate-limit workload: every upstream that answers is healthy.
HealthyAnswers == {Answer(200, NoType)}

(***************************************************************************)
(* Responses (fetch's Response) and the express response object.           *)
(***************************************************************************)
\* `headers` are the headers besides Content-Type and Content-Length, which
\* have fields of their own.
NullResponse ==
    [defined |-> FALSE, status |-> 0, hasType |-> FALSE, type |-> <<>>,
     headers |-> <<>>, hasLength |-> FALSE, body |-> <<>>]
MakeResponse(status, ct) ==
    [NullResponse EXCEPT !.defined = TRUE, !.status = status,
                         !.hasType = ct.hasType, !.type = ct.type]

\* The Response fetch resolves with when the upstream gives answer a.
ResponseOf(a) ==
    [MakeResponse(a.status, a.ct) EXCEPT !.headers = a.headers, !.hasLength = a.hasLength,
                                         !.body = a.body]

\* Iterating proxyResponse.headers: every header of the response.  The value of
\* Content-Length is the number of bytes of the body.
AllHeaders(response) ==
    response.headers
        \o (IF response.hasType THEN <<Header("content-type", response.type)>> ELSE <<>>)
        \o (IF response.hasLength THEN <<Header("content-length", Len(response.body))>> ELSE <<>>)

\* response.ok
ResponseOk(response) == response.status >= 200 /\ response.status <= 299

\* new Response(null, { status: 429 })
LimitedResponse == MakeResponse(429, NoType)

\* The Content-Length header of res is not set, set to null, or set to a
\* number: this is the last.
LengthOf(n) == [set |-> TRUE, isNull |-> FALSE, value |-> n]

\* `headers` is what res.set has stored and `cookies` what res.cookie has
\* appended (as in transformHeadersForResponse); `contentLength` is the
\* Content-Length header and `bytes` the body sent.
FreshRes ==
    [status |-> 0, sent |-> FALSE, body |-> "none", proxyTargetsCookie |-> CookieAbsent,
     headers |-> <<>>, cookies |-> <<>>, contentLength |-> [set |-> FALSE, isNull |-> FALSE, value |-> 0],
     bytes |-> <<>>]

(***************************************************************************)
(* The cookie exchange: an upstream sets a cookie through the proxy, the   *)
(* browser stores what it is sent, and sends its cookies back with the     *)
(* next request.  The exchange runs the two header translators on their    *)
(* own, outside a proxied request.                                         *)
(***************************************************************************)
\* 'localhost:3000', the Host header of the proxy
ProxyHost == <<"l", "o", "c", "a", "l", "h", "o", "s", "t", ":", "3", "0", "0", "0">>

\* Cookie names an upstream or a browser may use: 'proxyTargets' with zero to
\* three leading underscores, and names the escaping must leave alone.
Underscores == <<"_", "_", "_">>
EscapableNames == {SubSeq(Underscores, 1, n) \o ProxyTargetsName : n \in 0..Len(Underscores)}
CookieNames ==
    EscapableNames
        \cup {<<"s", "i", "d">>, <<"_", "s">>, ProxyTargetsName \o <<"X">>, <<"x">> \o ProxyTargetsName}

Cookie(name, value) == [name |-> name, value |-> value]

\* What a browser may hold before the exchange: nothing, the proxy's state
\* cookie proxyTargets=["http://a"], or that cookie among others.
InitialJars ==
    LET state == Cookie(ProxyTargetsName,
                        <<"[", "\"", "h", "t", "t", "p", ":", "/", "/", "a", "\"", "]">>)
    IN  {<<>>, <<state>>,
         <<Cookie(<<"s", "i", "d">>, <<"1">>), state,
           Cookie(<<"_", "_">> \o ProxyTargetsName, <<"w">>)>>}

\* Headers a browser may send besides Cookie.
RequestHeaderSets ==
    {<<Header("host", ProxyHost)>>,
     <<Header("host", ProxyHost), Header("content-length", <<"3">>),
       Header("content-encoding", <<"g", "z", "i", "p">>), Header("accept", <<"*">>)>>,
     <<Header("transfer-encoding", <<"c", "h", "u", "n", "k", "e", "d">>),
       Header("origin", ProxyHost)>>}

\* The browser stores the cookies it is sent, each replacing one of the same name.
RECURSIVE StoreCookies(_, _)
StoreCookies(jar, cookies) ==
    IF Len(cookies) = 0 THEN jar
    ELSE LET c == Head(cookies)
             stored == SelectSeq(jar, LAMBDA d : d.name # c.name) \o <<Cookie(c.name, c.value)>>
         IN  StoreCookies(stored, Tail(cookies))

\* The Cookie header a browser sends for its jar: name=value joined by '; '.
CookieHeaderOf(jar) ==
    JoinWith([i \in 1..Len(jar) |-> jar[i].name \o <<"=">> \o jar[i].value], <<";", " ">>)

IdleExchange ==
    [stage |-> "idle", origin |-> Cookie(<<>>, <<>>), setCookie |-> <<>>, jar |-> <<>>,
     inbound |-> <<>>, outbound |-> <<>>]

IdlePage ==
    [passes |-> -1, context |-> <<>>, url |-> <<>>, html |-> <<>>, proxyDomain |-> <<>>,
     results |-> <<>>]

(***************************************************************************)
(* State.                                                                  *)
(*   now            the wall clock read by checkRateLimit (ms)             *)
(*   recentRequests the process-wide queue of src/app.js:10                *)
(*   reqs           per client, the request being handled: its inputs, the *)
(*                  locals of the suspended async functions, the express   *)
(*                  response, and a log of the attempts made for it        *)
(*   admitted       history: the attempts the limiter let through, kept    *)
(*                  for one window                                         *)
(*   workload       per client, the requests it may send                   *)
(*   arrivals       how many requests are still to arrive                  *)
(*   upstream       the answers upstream servers may give                  *)
(*   exchange       the cookie exchange between an upstream, the proxy's   *)
(*                  header translators and a browser (SpecCookies)         *)
(*   page           a text under the URL rewriter (SpecRewrite)            *)
(***************************************************************************)
VARIABLES now, recentRequests, reqs, admitted, workload, arrivals, upstream, exchange, page

vars == <<now, recentRequests, reqs, admitted, workload, arrivals, upstream, exchange, page>>

\* A request before it arrives.  pc is the await the handler is suspended at:
\*   "fetch"    await of fetch(...) in sendBrowserRequest
\*   "limited"  await of the 429 Response sendBrowserRequest returned
\*   "text"     await response.text()
\*   "pipe"     await pipeline(...)
\*   "done"     the response has been sent
IdleReq ==
    [pc |-> "idle", method |-> "GET", url |-> <<>>, ip |-> "", userAgent |-> "",
     cookie |-> CookieAbsent,
     proxyTargets |-> <<>>,          \* req.cookies.proxyTargets
     route |-> "none",               \* "direct": proxyBrowserRequest, "list": ...OnCookies
     proxyTarget |-> <<>>,           \* proxyTarget of the attempt under way
     index |-> -1,                   \* its index in the list (0-based), -1 if not from the list
     attemptedProxyTargets |-> {},
     bestResponse |-> NullResponse, bestProxyTargetIndex |-> -1,
     response |-> NullResponse,      \* the response the handler relays
     res |-> FreshRes,
     closed |-> FALSE,               \* the client has closed the connection of the request
     bodyStreamTees |-> <<>>,        \* per bodyStream.tee(): the branch kept in bodyStream
                                     \* and the branch passed on as bodyStreamTee
     attempts |-> <<>>]              \* log: one entry per call of sendBrowserRequest

\* An entry of the attempts log.  kind: "limited" (429 without I/O), "invalid"
\* (the URL failed validation) or "fetch"; outcome: "pending" while the fetch is
\* in flight, then "responded" or "rejected"; "none" when no fetch was issued.
AttemptEntry(proxyTarget, url, index, kind) ==
    [proxyTarget |-> proxyTarget, url |-> url, index |-> index, kind |-> kind,
     outcome |-> IF kind = "fetch" THEN "pending" ELSE "none",
     status |-> IF kind = "limited" THEN 429 ELSE 0]

\* The last entry of the log gets its outcome.
Settle(attempts, outcome, status) ==
    [attempts EXCEPT ![Len(attempts)] = [@ EXCEPT !.outcome = outcome, !.status = status]]

\* req['user-agent'] (src/app.js:309): the request object has no such property
ReqUserAgentProperty(r) == "undefined"

(***************************************************************************)
(* The error middleware (src/app.js:456-459), reached through next(err).   *)
(***************************************************************************)
\* Variant: no middleware answers the error.
FailUnanswered(r) == [r EXCEPT !.pc = "done"]

\* Variant: the error is swallowed and the response ends as it stands.
FailSilently(r) ==
    [r EXCEPT !.pc = "done", !.res = [@ EXCEPT !.sent = TRUE, !.body = "empty"]]

Fail500(r) ==
    [r EXCEPT !.pc = "done",
              !.res = [@ EXCEPT !.status = 500, !.sent = TRUE, !.body = "error"]]

(***************************************************************************)
(* The handler of app.all('/**') after proxyBrowserRequest has returned    *)
(* (src/app.js:416-447).                                                   *)
(***************************************************************************)
\* Variant: the chain of tests without its last one, 'svg'.
IsTextualTypeNoSvg(type) ==
    \/ Includes(type, HtmlWord)
    \/ Includes(type, <<"c", "s", "s">>)
    \/ Includes(type, <<"s", "c", "s", "s">>)
    \/ Includes(type, <<"j", "a", "v", "a", "s", "c", "r", "i", "p", "t">>)
    \/ Includes(type, <<"j", "s", "o", "n">>)
    \/ Includes(type, <<"t", "e", "x", "t">>)

\* the chain of type.includes(...) tests
IsTextualType(type) ==
    \/ Includes(type, HtmlWord)
    \/ Includes(type, <<"c", "s", "s">>)
    \/ Includes(type, <<"s", "c", "s", "s">>)
    \/ Includes(type, <<"j", "a", "v", "a", "s", "c", "r", "i", "p", "t">>)
    \/ Includes(type, <<"j", "s", "o", "n">>)
    \/ Includes(type, <<"t", "e", "x", "t">>)
    \/ Includes(type, <<"s", "v", "g">>)

\* JSON.stringify(req.cookies.proxyTargets)
JsonStringify(list) == CookieJson(list)

\* The same as text: ["http://a","https://b"].  (No origin of this model holds
\* a character JSON escapes.)
StringifyList(list) ==
    <<"[">> \o JoinWith([i \in 1..Len(list) |-> <<"\"">> \o list[i] \o <<"\"">>], <<",">>) \o <<"]">>

\* { httpOnly: true, secure: false }
StateCookieOptions ==
    <<[name |-> <<"h", "t", "t", "p", "O", "n", "l", "y">>, flag |-> TRUE, value |-> <<>>]>>

\* transformHeadersForResponse(response, res, host); res.cookie('proxyTargets', ...)
\* where host is req.headers.host.  (`out` ranges over a set of one element, so
\* that the translated headers are computed once.)
SetHeadersAndCookie(res, r, response) ==
    LET translated ==
            {[res EXCEPT !.headers = out.headers,
                         !.cookies = ResCookie(out.cookies, ProxyTargetsName,
                                               StringifyList(r.proxyTargets),
                                               StateCookieOptions)] :
                out \in {transformHeadersForResponse(
                             AllHeaders(response),
                             [headers |-> res.headers, cookies |-> res.cookies],
                             ProxyHost)}}
    IN  CHOOSE done \in translated : TRUE

\* response.headers.get('content-length'): the value, or null
GetContentLength(response) ==
    IF response.hasLength THEN LengthOf(Len(response.body))
    ELSE [set |-> TRUE, isNull |-> TRUE, value |-> 0]

\* The handler from res.status on; its calls of transformHeadersForResponse and
\* res.cookie are made where the run is committed.
Respond(r, response) ==
    IF ~response.defined THEN Fail500(r)
    ELSE LET res1 == [r.res EXCEPT !.status = response.status,
                                   !.proxyTargetsCookie = JsonStringify(r.proxyTargets)]
             r1 == [r EXCEPT !.response = response, !.res = res1]
         IN  IF ~response.hasType \/ response.type = <<>>
             THEN [r1 EXCEPT !.pc = "done", !.res = [res1 EXCEPT !.sent = TRUE, !.body = "empty"]]
             ELSE IF IsTextualType(response.type)
             THEN [r1 EXCEPT !.pc = "text"]
             ELSE [r1 EXCEPT !.pc = "pipe",
                             !.res = [res1 EXCEPT !.contentLength = GetContentLength(response)]]

(***************************************************************************)
(* sendBrowserRequest (src/app.js:306-323) up to its await.  sys carries   *)
(* the shared state: the queue and the history of admitted attempts.       *)
(***************************************************************************)
\* url.split('?', 2)[0]
PathOf(url) == Head(Split(url, "?"))

sendBrowserRequest(r, sys, t, proxyTarget, url, index) ==
    LET path == PathOf(url)
        rl == checkRateLimit(sys.queue, r.ip, ReqUserAgentProperty(r), proxyTarget, path, t)
        kind == IF rl.exceeded THEN "limited"
                ELSE IF ~urlValidationRegex(proxyTarget \o url) THEN "invalid"
                ELSE "fetch"
        \* fetch reads the body stream it is given (src/app.js:320)
        r1 == [r EXCEPT !.proxyTarget = proxyTarget, !.index = index,
                        !.attempts = Append(@, AttemptEntry(proxyTarget, url, index, kind)),
                        !.bodyStreamTees = IF kind = "fetch" /\ Len(@) > 0
                                           THEN [@ EXCEPT ![Len(@)].passed = "consumed"]
                                           ELSE @]
    IN  [req |-> CASE kind = "limited" -> [r1 EXCEPT !.pc = "limited"]
                   [] kind = "invalid" -> Fail500(r1)
                   [] OTHER -> [r1 EXCEPT !.pc = "fetch"],
         sys |-> [queue |-> rl.queue,
                  admitted |-> IF rl.exceeded THEN sys.admitted
                               ELSE Append(sys.admitted,
                                           RateEntry(r.ip, r.userAgent, proxyTarget, path, t))]]

(***************************************************************************)
(* proxyBrowserRequestOnCookies (src/app.js:333-357).  Indices are the     *)
(* 0-based indices of the code: entry k of the list is list[k + 1].        *)
(***************************************************************************)
\* The next index >= from whose entry is not in attemptedProxyTargets (the
\* loop's `continue`), or -1 when the iterator is exhausted.
\* Variant: repeated entries are not skipped.
NextCandidateNoSkip(list, attempted, from) ==
    IF from <= Len(list) - 1 THEN from ELSE -1

NextCandidate(list, attempted, from) ==
    IF \E k \in from..(Len(list) - 1) : list[k + 1] \notin attempted
    THEN CHOOSE k \in from..(Len(list) - 1) :
            /\ list[k + 1] \notin attempted
            /\ \A j \in from..(k - 1) : list[j + 1] \in attempted
    ELSE -1

\* Variant: one entry too few is removed.
Splice0Short(list, k) == SubSeq(list, k, Len(list))

\* list.splice(0, k)
Splice0(list, k) == SubSeq(list, k + 1, Len(list))

\* After the loop: drop the entries before the best one, return bestResponse.
FinishOnCookies(r) ==
    LET list == IF r.bestProxyTargetIndex > 0 /\ ResponseOk(r.bestResponse)
                THEN Splice0(r.proxyTargets, r.bestProxyTargetIndex)
                ELSE r.proxyTargets
    IN  Respond([r EXCEPT !.proxyTargets = list], r.bestResponse)

\* Variant: the fetch of candidate k is not awaited; the loop goes on to the
\* next candidate at once.
AttemptCandidateNoAwait(r, sys, t, k) ==
    LET proxyTarget == r.proxyTargets[k + 1]
        r1 == [r EXCEPT !.attemptedProxyTargets = @ \cup {proxyTarget}]
        o1 == sendBrowserRequest(r1, sys, t, proxyTarget, r.url, k)
        k2 == NextCandidate(r.proxyTargets, r1.attemptedProxyTargets, k + 1)
    IN  IF o1.req.pc = "fetch" /\ k2 # -1
        THEN sendBrowserRequest([o1.req EXCEPT !.attemptedProxyTargets =
                                                  @ \cup {r.proxyTargets[k2 + 1]}],
                                o1.sys, t, r.proxyTargets[k2 + 1], r.url, k2)
        ELSE o1

\* One pass of the loop body up to the await: candidate k is attempted.  With
\* a body, bodyStream is split (src/app.js:344): the stream split is locked by
\* its tee, one new branch is kept in bodyStream and the other is passed on.
AttemptCandidate(r, sys, t, k) ==
    LET proxyTarget == r.proxyTargets[k + 1]
        r1 == [r EXCEPT !.attemptedProxyTargets = @ \cup {proxyTarget},
                        !.bodyStreamTees =
                            IF r.method \in BodylessMethods THEN @
                            ELSE Append([i \in 1..Len(r.bodyStreamTees) |->
                                            [r.bodyStreamTees[i] EXCEPT !.kept = "teed"]],
                                        [kept |-> "open", passed |-> "open"])]
    IN  sendBrowserRequest(r1, sys, t, proxyTarget, r.url, k)

\* if (response.status < 400) ... break
IsSuccess(response) == response.status < 400

\* The loop after the await: `response` is what candidate r.index produced.
ContinueOnCookies(r, sys, t, response) ==
    LET first == ~r.bestResponse.defined
        r1 == IF first \/ IsSuccess(response)
              THEN [r EXCEPT !.bestResponse = response, !.bestProxyTargetIndex = r.index]
              ELSE r
        k == NextCandidate(r.proxyTargets, r.attemptedProxyTargets, r.index + 1)
    IN  IF IsSuccess(response) \/ k = -1
        THEN [req |-> FinishOnCookies(r1), sys |-> sys]
        ELSE AttemptCandidate(r1, sys, t, k)

(***************************************************************************)
(* proxyBrowserRequest (src/app.js:365-390).                               *)
(***************************************************************************)
\* The branch taken: an origin in the path, the cookie list, or the fallback.
\* (Array.isArray holds of every list the cookie middleware can leave here.)
IsExplicit(url) == StartsWith(url, HttpPrefix) \/ StartsWith(url, HttpsPrefix)

\* Variant: the requested url is kept.
FallbackTargetKeepUrl(url) == [proxyTarget |-> fallBackDomain, modifiedUrl |-> url]

\* [proxyTarget, url] = [fallBackDomain, '/']
FallbackTarget(url) == [proxyTarget |-> fallBackDomain, modifiedUrl |-> <<"/">>]

proxyBrowserRequest(r, sys, t) ==
    IF IsExplicit(r.url)
    THEN LET pair == getAbsoluteProxyTarget(r.url)
         IN  sendBrowserRequest([r EXCEPT !.route = "direct"], sys, t,
                                pair.proxyTarget, pair.modifiedUrl, -1)
    ELSE IF Len(r.proxyTargets) > 0
    THEN AttemptCandidate([r EXCEPT !.route = "list"], sys, t,
                          NextCandidate(r.proxyTargets, {}, 0))
    ELSE LET pair == FallbackTarget(r.url)
         IN  sendBrowserRequest([r EXCEPT !.route = "direct"], sys, t,
                                pair.proxyTarget, pair.modifiedUrl, -1)

\* "Potentially add new proxyTarget to cookies": the condition of the if.
\* response.headers.get('content-type') is null when the header is absent, and
\* .includes on null throws.
\* Variant: the method of the request is not looked at.
AddsTargetAnyMethod(r, response) ==
    /\ ResponseOk(response)
    /\ Includes(response.type, HtmlWord)
    /\ (Len(r.proxyTargets) = 0 \/ r.proxyTargets[1] # r.proxyTarget)

AddsTarget(r, response) ==
    /\ ResponseOk(response)
    /\ r.method = "GET"
    /\ Includes(response.type, HtmlWord)
    /\ (Len(r.proxyTargets) = 0 \/ r.proxyTargets[1] # r.proxyTarget)

ThrowsOnType(r, response) ==
    ResponseOk(response) /\ r.method = "GET" /\ ~response.hasType

\* Variant: the new origin is pushed at the end of the list.
ContinueDirectAppend(r, response) ==
    IF ThrowsOnType(r, response) THEN Fail500(r)
    ELSE IF AddsTarget(r, response)
    THEN Respond([r EXCEPT !.proxyTargets = @ \o <<r.proxyTarget>>], response)
    ELSE Respond(r, response)

\* proxyBrowserRequest after its await, then the handler.
ContinueDirect(r, response) ==
    IF ThrowsOnType(r, response) THEN Fail500(r)
    ELSE IF AddsTarget(r, response)
    THEN Respond([r EXCEPT !.proxyTargets = <<r.proxyTarget>> \o @], response)
    ELSE Respond(r, response)

\* The handler resumes with the response of the attempt under way.
Resume(r, sys, t, response) ==
    IF r.route = "list" THEN ContinueOnCookies(r, sys, t, response)
    ELSE [req |-> ContinueDirect(r, response), sys |-> sys]

(***************************************************************************)
(* The cookie middleware (src/app.js:395-399).                             *)
(***************************************************************************)
\* JSON.parse(req.cookies.proxyTargets || '[]') throws on text that is no JSON
JsonParseThrows(cookie) == cookie.kind = "malformed"
JsonParse(cookie) == IF cookie.kind = "json" THEN cookie.list ELSE <<>>

(***************************************************************************)
(* Actions.  Each is the code that runs between two awaits.                *)
(***************************************************************************)
Sys == [queue |-> recentRequests, admitted |-> admitted]

\* What one run writes.  A request whose handler has got its response in this
\* run (it has a response, and no header is set yet) has its headers and the
\* state cookie set (src/app.js:423-424) before the body is sent.
Commit(c, out) ==
    /\ reqs' = [reqs EXCEPT ![c] =
                    IF out.req.response.defined /\ out.req.res.cookies = <<>>
                    THEN [out.req EXCEPT !.res = SetHeadersAndCookie(@, out.req, out.req.response)]
                    ELSE out.req]
    /\ recentRequests' = out.sys.queue
    /\ admitted' = out.sys.admitted

\* A request arrives: the middleware chain and the handler run up to the
\* first await.
Receive(c) ==
    /\ reqs[c].pc \in {"idle", "done"}
    /\ arrivals > 0
    /\ arrivals' = arrivals - 1
    /\ \E s \in workload[c] :
        LET r == [IdleReq EXCEPT !.method = s.method, !.url = s.url, !.ip = s.ip,
                                 !.userAgent = s.userAgent, !.cookie = s.cookie]
        IN  \E out \in {IF JsonParseThrows(s.cookie)
                         THEN [req |-> Fail500(r), sys |-> Sys]
                         ELSE proxyBrowserRequest(
                                  [r EXCEPT !.proxyTargets = JsonParse(s.cookie)], Sys, now)} :
                Commit(c, out)
    /\ UNCHANGED <<now, workload, upstream, exchange, page>>

\* The upstream answers the fetch in flight.
FetchResponds(c) ==
    /\ reqs[c].pc = "fetch"
    /\ \E a \in upstream :
        LET r == [reqs[c] EXCEPT !.attempts = Settle(@, "responded", a.status)]
        IN  \E out \in {Resume(r, Sys, now, ResponseOf(a))} : Commit(c, out)
    /\ UNCHANGED <<now, workload, arrivals, upstream, exchange, page>>

\* The fetch in flight fails (DNS, TCP, TLS): the rejection propagates to the
\* handler's catch.
FetchRejects(c) ==
    /\ reqs[c].pc = "fetch"
    /\ reqs' = [reqs EXCEPT ![c] = Fail500([reqs[c] EXCEPT !.attempts = Settle(@, "rejected", 0)])]
    /\ UNCHANGED <<now, recentRequests, admitted, workload, arrivals, upstream, exchange, page>>

\* The await of the 429 Response of a rate-limited attempt resumes.
LimitedResumes(c) ==
    /\ reqs[c].pc = "limited"
    /\ \E out \in {Resume(reqs[c], Sys, now, LimitedResponse)} : Commit(c, out)
    /\ UNCHANGED <<now, workload, arrivals, upstream, exchange, page>>

\* response.text() resolves: res.send(injectProxyTarget(...)).  express sets
\* Content-Length to the length of the text it sends.
TextArrives(c) ==
    /\ reqs[c].pc = "text"
    /\ LET text == injectProxyTarget(reqs[c].response.body, ProxyHost)
       IN  reqs' = [reqs EXCEPT ![c] =
                       [@ EXCEPT !.pc = "done",
                                 !.res = [@ EXCEPT !.sent = TRUE, !.body = "rewritten",
                                                   !.contentLength = LengthOf(Len(text)),
                                                   !.bytes = text]]]
    /\ UNCHANGED <<now, recentRequests, admitted, workload, arrivals, upstream, exchange, page>>

\* response.text() rejects.
TextFails(c) ==
    /\ reqs[c].pc = "text"
    /\ reqs' = [reqs EXCEPT ![c] = Fail500(@)]
    /\ UNCHANGED <<now, recentRequests, admitted, workload, arrivals, upstream, exchange, page>>

\* pipeline(...) settles; a rejection is logged by .catch(console.log).
PipeEnds(c) ==
    /\ reqs[c].pc = "pipe"
    /\ reqs' = [reqs EXCEPT ![c] =
                    [@ EXCEPT !.pc = "done",
                              !.res = [@ EXCEPT !.sent = TRUE, !.body = "piped",
                                                !.bytes = reqs[c].response.body]]]
    /\ UNCHANGED <<now, recentRequests, admitted, workload, arrivals, upstream, exchange, page>>

\* The client closes its connection while the handler is suspended.  The
\* handler registers no listener on the request or the response and passes no
\* abort signal to fetch (src/app.js:317-322, 413-451): nothing but the
\* connection changes, and what is written to res later is dropped.
ClientDisconnects(c) ==
    /\ reqs[c].pc \in {"fetch", "limited", "text", "pipe"}
    /\ ~reqs[c].closed
    /\ reqs' = [reqs EXCEPT ![c] = [@ EXCEPT !.closed = TRUE]]
    /\ UNCHANGED <<now, recentRequests, admitted, workload, arrivals, upstream, exchange, page>>

\* Time passes.  The history forgets what is older than one window.
RECURSIVE Forget(_, _)
Forget(h, t) ==
    IF Len(h) > 0 /\ t - h[1].time > rateLimitWindow THEN Forget(Tail(h), t) ELSE h

Tick ==
    /\ now + TickMs <= MaxTime
    /\ now' = now + TickMs
    /\ admitted' = Forget(admitted, now')
    /\ UNCHANGED <<recentRequests, reqs, workload, arrivals, upstream, exchange, page>>

Next ==
    \/ \E c \in Clients : Receive(c)
    \/ \E c \in Clients : FetchResponds(c)
    \/ \E c \in Clients : FetchRejects(c)
    \/ \E c \in Clients : LimitedResumes(c)
    \/ \E c \in Clients : TextArrives(c)
    \/ \E c \in Clients : TextFails(c)
    \/ \E c \in Clients : PipeEnds(c)
    \/ \E c \in Clients : ClientDisconnects(c)
    \/ Tick

\* The steps of a workload whose upstream answers carry no body and whose
\* clients stay connected.
NextRate ==
    \/ \E c \in Clients : Receive(c)
    \/ \E c \in Clients : FetchResponds(c)
    \/ \E c \in Clients : FetchRejects(c)
    \/ \E c \in Clients : LimitedResumes(c)
    \/ Tick

\* The queue after a burst of rateLimitCount requests GET / with the cookie
\* ["http://a", ...] at time 0, all of them admitted.
BurstQueue == [i \in 1..rateLimitCount |-> RateEntry("ip1", "undefined", OriginA, UrlRoot, 0)]
BurstAdmitted == [i \in 1..rateLimitCount |-> RateEntry("ip1", "ua1", OriginA, UrlRoot, 0)]

InitCommon ==
    /\ now = 0
    /\ reqs = [c \in Clients |-> IdleReq]
    /\ exchange = IdleExchange
    /\ page = IdlePage

\* The dispatch workload: one request of any shape, sent by client 1, with any
\* upstream answer; the queue is empty or holds an earlier burst, of requests
\* GET / or of requests GET /http./p (which pass the limiter and then fail
\* the validation of their URL).
DispatchClients == {1}

Init ==
    /\ InitCommon
    /\ \/ recentRequests = <<>> /\ admitted = <<>>
       \/ recentRequests = BurstQueue /\ admitted = BurstAdmitted
       \/ LET t == getAbsoluteProxyTarget(UrlExplicitEmptyHost)
              burst(ua) == [i \in 1..rateLimitCount |->
                              RateEntry("ip1", ua, t.proxyTarget, PathOf(t.modifiedUrl), 0)]
          IN  recentRequests = burst("undefined") /\ admitted = burst("ua1")
    /\ workload = [c \in Clients |-> IF c \in DispatchClients THEN DispatchShapes ELSE {}]
    /\ arrivals = Cardinality(DispatchClients)
    /\ upstream = UpstreamAnswers

\* The rate-limit workload: from the empty queue, a burst of like requests
\* from both clients; an upstream answers 200 or the fetch fails.
InitRate ==
    /\ InitCommon
    /\ recentRequests = <<>>
    /\ admitted = <<>>
    /\ workload = [c \in Clients |-> RateShapes]
    /\ arrivals = MaxBurst
    /\ upstream = HealthyAnswers

\* The concurrent workload: both clients send one request through a cookie
\* list of two candidates, the second of which may be a bare host name, or a
\* request with a malformed cookie; the queue is empty or holds an earlier
\* burst.
InitPair ==
    /\ InitCommon
    /\ \/ recentRequests = <<>> /\ admitted = <<>>
       \/ recentRequests = BurstQueue /\ admitted = BurstAdmitted
    /\ workload = [c \in Clients |->
                      PairShapes \cup {Shape("GET", UrlRoot, "ip1", "ua1", CookieMalformed),
                                       Shape("GET", UrlRoot, "ip1", "ua1",
                                             CookieJson(<<OriginA, OriginC>>))}]
    /\ arrivals = Cardinality(Clients)
    /\ upstream = BodylessAnswers

\* The body workload: client 1 sends one request through a cookie list, and
\* the upstream answers 200 with a body of one of the content types; the queue
\* is empty or holds an earlier burst.
InitBody ==
    /\ InitCommon
    /\ \/ recentRequests = <<>> /\ admitted = <<>>
       \/ recentRequests = BurstQueue /\ admitted = BurstAdmitted
    /\ workload = [c \in Clients |-> IF c \in DispatchClients THEN PairShapes ELSE {}]
    /\ arrivals = Cardinality(DispatchClients)
    /\ upstream = BodyAnswers

Spec == Init /\ [][Next]_vars

SpecBody == InitBody /\ [][Next]_vars

\* The dispatch workload under the scheduling of the event loop.  Every
\* upstream request returns a response or fails, as does the reading and the
\* piping of a response's body: weak fairness of the continuations of these
\* awaits.  The continuation of an already settled promise is run: the await
\* of the limiter's 429 Response resumes.  That continuation is enabled exactly
\* while the handler is suspended there, so its weak fairness is written out:
\* the handler is again and again not at that await, or resumes from it again
\* and again.
SpecLive ==
    /\ Init
    /\ [][Next]_vars
    /\ \A c \in DispatchClients :
          /\ WF_vars(FetchRejects(c) \/ FetchResponds(c))
          /\ WF_vars(TextFails(c) \/ TextArrives(c))
          /\ WF_vars(PipeEnds(c))
          /\ \/ []<>(reqs[c].pc # "limited")
             \/ []<><<LimitedResumes(c)>>_vars

SpecPair == InitPair /\ [][NextRate]_vars

SpecRate == InitRate /\ [][NextRate]_vars

(***************************************************************************)
(* The cookie exchange, step by step (SpecCookies).                        *)
(***************************************************************************)
\* The upstream answers with one Set-Cookie header; the proxy translates the
\* response headers and the browser stores the cookies it is sent.
UpstreamSetsCookie ==
    /\ exchange.stage = "start"
    /\ LET out == transformHeadersForResponse(<<Header("set-cookie", exchange.setCookie)>>,
                                              [headers |-> <<>>, cookies |-> <<>>], ProxyHost)
       IN  exchange' = [exchange EXCEPT !.stage = "stored",
                                        !.jar = StoreCookies(@, out.cookies)]
    /\ UNCHANGED <<now, recentRequests, reqs, admitted, workload, arrivals, upstream, page>>

\* The browser sends a request with its cookies; the proxy translates the
\* request headers for the upstream 'a'.
BrowserSendsCookies ==
    /\ exchange.stage = "stored"
    /\ \E hs \in RequestHeaderSets :
        LET inbound == IF Len(exchange.jar) = 0 THEN hs
                       ELSE hs \o <<Header("cookie", CookieHeaderOf(exchange.jar))>>
        IN  exchange' = [exchange EXCEPT
                            !.stage = "sent",
                            !.inbound = inbound,
                            !.outbound = transformHeadersForRequest(inbound, <<"a">>)]
    /\ UNCHANGED <<now, recentRequests, reqs, admitted, workload, arrivals, upstream, page>>

NextCookies == UpstreamSetsCookie \/ BrowserSendsCookies

\* No proxied request is under way.
InitQuiet ==
    /\ now = 0
    /\ reqs = [c \in Clients |-> IdleReq]
    /\ recentRequests = <<>>
    /\ admitted = <<>>
    /\ workload = [c \in Clients |-> {}]
    /\ arrivals = 0
    /\ upstream = {}

\* The upstream's cookie has the value 'v', 'a=b' or the empty value, and the
\* attributes '', '; Path=/' or ';Domain=a.com; HttpOnly'.
InitCookies ==
    /\ InitQuiet
    /\ page = IdlePage
    /\ \E name \in CookieNames,
          value \in {<<"v">>, <<"a", "=", "b">>, <<>>},
          attrs \in {<<>>,
                     <<";", " ", "P", "a", "t", "h", "=", "/">>,
                     <<";", "D", "o", "m", "a", "i", "n", "=", "a", ".", "c", "o", "m",
                       ";", " ", "H", "t", "t", "p", "O", "n", "l", "y">>},
          jar \in InitialJars :
        exchange = [IdleExchange EXCEPT !.stage = "start",
                                        !.origin = Cookie(name, value),
                                        !.setCookie = name \o <<"=">> \o value \o attrs,
                                        !.jar = jar]

SpecCookies == InitCookies /\ [][NextCookies]_vars

(***************************************************************************)
(* The texts the rewriter is run on (SpecRewrite): a URL in a context.     *)
(***************************************************************************)
\* 'http://a/p', 'https://b', '//c/d?e#f', 'http:\/\/a\/p',
\* 'https:\u002f\u002fb', 'HTTP://u@a:8/p//q'
TextUrls ==
    {<<"h", "t", "t", "p", ":", "/", "/", "a", "/", "p">>,
     <<"h", "t", "t", "p", "s", ":", "/", "/", "b">>,
     <<"/", "/", "c", "/", "d", "?", "e", "#", "f">>,
     <<"h", "t", "t", "p", ":", "\\", "/", "\\", "/", "a", "\\", "/", "p">>,
     <<"h", "t", "t", "p", "s", ":", "\\", "u", "0", "0", "2", "f", "\\", "u", "0", "0", "2", "f", "b">>,
     <<"H", "T", "T", "P", ":", "/", "/", "u", "@", "a", ":", "8", "/", "p", "/", "/", "q">>}

\* What may stand before the URL: 'href="', a backslash, 'xmlns="' or
\* "Xmlns = '"; besides these, nothing or '//'.
HrefContext == <<"h", "r", "e", "f", "=", "\"">>
BackslashContext == <<"\\">>
XmlnsContext == <<"x", "m", "l", "n", "s", "=", "\"">>
XmlnsSpacedContext == <<"X", "m", "l", "n", "s", " ", "=", " ", "'">>

\* A page before the rewriter has run; after the URL stands nothing, or '" x'.
\* `results[n]` is the text after n passes of injectProxyTarget.
FreshPage(context, url, ending, proxyDomain) ==
    [passes |-> 0, context |-> context, url |-> url, html |-> context \o url \o ending,
     proxyDomain |-> proxyDomain, results |-> <<>>]

\* How often the rewriter is run on its own output.
MaxPasses == 2

\* res.send(injectProxyTarget(text, host)), and again on what it returned.
Rewrite ==
    /\ page.passes >= 0
    /\ page.passes < MaxPasses
    /\ LET text == IF page.passes = 0 THEN page.html ELSE page.results[page.passes]
       IN  page' = [page EXCEPT !.passes = @ + 1,
                                !.results = Append(@, injectProxyTarget(text, page.proxyDomain))]
    /\ UNCHANGED <<now, recentRequests, reqs, admitted, workload, arrivals, upstream, exchange>>

NextRewrite == Rewrite

InitRewrite ==
    /\ InitQuiet
    /\ exchange = IdleExchange
    /\ \E context \in {<<>>, HrefContext, BackslashContext, XmlnsContext, XmlnsSpacedContext,
                       <<"/", "/">>},
          url \in TextUrls, ending \in {<<>>, <<"\"", " ", "x">>} :
        page = FreshPage(context, url, ending, ProxyHost)

SpecRewrite == InitRewrite /\ [][NextRewrite]_vars

(***************************************************************************)
(* Vocabulary of the properties.                                           *)
(***************************************************************************)
\* The list the request came in with.
InboundList(r) == JsonParse(r.cookie)

\* The request has passed the cookie middleware and reached the resolver.
Resolved(r) == r.route # "none"

Last(seq) == seq[Len(seq)]

\* The attempt produced a response: an upstream answer, or the limiter's 429.
HasResponse(a) == a.outcome = "responded" \/ a.kind = "limited"

\* The handler has a response to relay, and what the client gets is 2xx.
Relays2xx(r) ==
    /\ r.pc \in {"text", "pipe", "done"}
    /\ r.response.defined
    /\ r.res.status >= 200 /\ r.res.status <= 299

\* The fingerprint of the specification: (ip, user-agent, origin, path).
SameFingerprint(e, f) ==
    e.ip = f.ip /\ e.userAgent = f.userAgent /\ e.proxyTarget = f.proxyTarget /\ e.path = f.path

(***************************************************************************)
(* C1.  Once the rate limiter signals "exceeded" for a candidate of a      *)
(* cookie-list dispatch, the client request ends with status 429 and no    *)
(* later candidate is processed: the limited attempt is the last attempt   *)
(* of the request, and the response sent has status 429.                   *)
(* The code returns the 429 as that candidate's response and the loop      *)
(* goes on to the next candidate.                                          *)
(***************************************************************************)
C1_LimitedEndsDispatch ==
    \A c \in Clients :
        LET r == reqs[c]
        IN  r.route = "list" =>
                \A i \in 1..Len(r.attempts) :
                    r.attempts[i].kind = "limited" =>
                        /\ i = Len(r.attempts)
                        /\ (r.pc = "done" => r.res.status = 429)

(***************************************************************************)
(* C2.  In every window of rateLimitWindow ms, at most rateLimitCount      *)
(* attempts of one fingerprint are admitted to an upstream request, and an *)
(* attempt the limiter rejects issues no upstream request.  (admitted      *)
(* holds the attempts admitted during the window that ends now; every      *)
(* window that holds an admitted attempt ends at such a moment.)           *)
(***************************************************************************)
AdmittedLike(e) ==
    Cardinality({j \in 1..Len(admitted) :
                    SameFingerprint(admitted[j], e) /\ now - admitted[j].time <= rateLimitWindow})

C2_WindowBound ==
    /\ \A i \in 1..Len(admitted) : AdmittedLike(admitted[i]) <= rateLimitCount
    /\ \A c \in Clients : \A i \in 1..Len(reqs[c].attempts) :
            reqs[c].attempts[i].kind = "limited" => reqs[c].attempts[i].outcome = "none"
    /\ \A c \in Clients : reqs[c].pc = "fetch" => Last(reqs[c].attempts).kind = "fetch"

\* The limit has been reached for a fingerprint and one more attempt with it
\* has just been rejected.
C2_Witness ==
    \E c \in Clients :
        /\ reqs[c].pc = "limited"
        /\ AdmittedLike(RateEntry(reqs[c].ip, reqs[c].userAgent, reqs[c].proxyTarget,
                                  PathOf(reqs[c].url), now)) = rateLimitCount

(***************************************************************************)
(* C3.  When the response relayed to the client is a 2xx produced by the   *)
(* list candidate at index k, the proxyTargets cookie set on the outgoing  *)
(* response is the inbound list without its first k entries.               *)
(***************************************************************************)
DropFirst(list, k) == [i \in 1..(Len(list) - k) |-> list[i + k]]

C3_CookieTruncated ==
    \A c \in Clients :
        LET r == reqs[c]
            a == Last(r.attempts)
        IN  (r.route = "list" /\ Relays2xx(r)) =>
                /\ a.outcome = "responded" /\ a.status = r.res.status
                /\ a.proxyTarget = InboundList(r)[a.index + 1]
                /\ r.res.proxyTargetsCookie = CookieJson(DropFirst(InboundList(r), a.index))

\* A 2xx from the candidate at index 2 has been sent with the cookie.
C3_Witness ==
    \E c \in Clients :
        LET r == reqs[c]
        IN  /\ r.route = "list" /\ Relays2xx(r) /\ r.pc = "done" /\ r.res.sent
            /\ Last(r.attempts).index = 2
            /\ Len(InboundList(r)) = 3
            /\ r.res.proxyTargetsCookie = CookieJson(<<OriginB>>)

(***************************************************************************)
(* C4.  A GET served by an origin O that is not drawn from the cookie list *)
(* (explicit in the path, or the fallback), answered 2xx with an HTML      *)
(* content type, where the inbound list is empty or its head differs from  *)
(* O: the outbound proxyTargets list is O followed by the inbound list.    *)
(***************************************************************************)
C4_OriginPrepended ==
    \A c \in Clients :
        LET r == reqs[c]
            O == r.attempts[1].proxyTarget
            l == InboundList(r)
        IN  ( /\ r.route = "direct" /\ r.method = "GET"
              /\ Relays2xx(r)
              /\ r.response.hasType /\ Includes(r.response.type, HtmlWord)
              /\ (Len(l) = 0 \/ l[1] # O) )
            => r.res.proxyTargetsCookie = CookieJson(<<O>> \o l)

\* GET /https.b with the cookie ["http://a","https://b"] was answered with
\* HTML and the response has been sent.
C4_Witness ==
    \E c \in Clients :
        LET r == reqs[c]
        IN  /\ r.route = "direct" /\ r.pc = "done" /\ r.res.sent /\ r.res.body = "rewritten"
            /\ r.res.status = 200
            /\ InboundList(r) = <<OriginA, OriginB>>
            /\ r.res.proxyTargetsCookie = CookieJson(<<OriginB, OriginA, OriginB>>)

(***************************************************************************)
(* C5.  For a cookie-list dispatch the response returned to the client is  *)
(* the response of the first attempted candidate with status < 400, which  *)
(* is then the last candidate attempted; if no attempted candidate yields  *)
(* status < 400, it is the response of the first attempted candidate.      *)
(* (Stated for dispatches in which every attempt reached the upstream and  *)
(* some candidate answered.)  The code loses the first response when a     *)
(* later fetch rejects: see C7.                                            *)
(***************************************************************************)
Successes(as) == {i \in 1..Len(as) : HasResponse(as[i]) /\ as[i].status < 400}

Least(S) == CHOOSE i \in S : \A j \in S : i <= j

C5_FirstSuccessElseFirst ==
    \A c \in Clients :
        LET r == reqs[c]
            as == r.attempts
        IN  ( /\ r.route = "list" /\ r.pc \in {"text", "pipe", "done"}
              /\ \E i \in 1..Len(as) : HasResponse(as[i])
              /\ \A i \in 1..Len(as) : as[i].kind = "fetch" )
            => /\ r.response.defined
               /\ IF Successes(as) # {}
                  THEN /\ Least(Successes(as)) = Len(as)
                       /\ r.response.status = Last(as).status
                  ELSE /\ HasResponse(as[1])
                       /\ r.response.status = as[1].status

(***************************************************************************)
(* C6.  Within one client request the candidates are attempted strictly    *)
(* one after the other: an upstream request is in flight only for the last *)
(* attempt made, so every earlier attempt has returned or failed before    *)
(* the next was issued; requests of different clients interleave.          *)
(***************************************************************************)
C6_OneInFlight ==
    \A c \in Clients :
        \A i \in 1..Len(reqs[c].attempts) :
            reqs[c].attempts[i].outcome = "pending" =>
                i = Len(reqs[c].attempts) /\ reqs[c].pc = "fetch"

\* Both clients have an upstream request in flight, one of them for its
\* second candidate after the first answered.
C6_Witness ==
    /\ \A c \in Clients : reqs[c].pc = "fetch"
    /\ \E c \in Clients :
        /\ Len(reqs[c].attempts) = 2
        /\ reqs[c].attempts[1].outcome = "responded"
        /\ reqs[c].attempts[2].outcome = "pending"

(***************************************************************************)
(* C7.  When the fetch of a candidate rejects, the client receives the     *)
(* provisional best response (the first response an earlier candidate      *)
(* produced) if there is one, and 500 only when no candidate produced a    *)
(* response.  In the code the rejection leaves the loop as an exception    *)
(* and the client gets 500 whatever was received before.                   *)
(***************************************************************************)
Responses(as) == {i \in 1..Len(as) : HasResponse(as[i])}

C7_ProvisionalBestOnFailure ==
    \A c \in Clients :
        LET r == reqs[c]
            as == r.attempts
        IN  ( /\ r.route = "list" /\ r.pc = "done"
              /\ Len(as) >= 1 /\ Last(as).outcome = "rejected"
              /\ \A i \in 1..Len(as) : as[i].kind = "fetch" )
            => IF Responses(as) # {}
               THEN r.res.status = as[Least(Responses(as))].status
               ELSE r.res.status = 500

(***************************************************************************)
(* C8.  A request whose URL begins with /http. or /https. makes exactly    *)
(* one attempt: to the origin that is its first path segment with the      *)
(* first "." replaced by "://", with the rest of the path (from the next   *)
(* "/" on, or "/" if there is none) as the upstream URL; no entry of the   *)
(* proxyTargets cookie is attempted.  (Stated for requests that reach the  *)
(* resolver; an attempt is a call of sendBrowserRequest.)                  *)
(***************************************************************************)
BeginsWithOrigin(url) ==
    \/ Len(url) >= 6 /\ SubSeq(url, 1, 6) = <<"/", "h", "t", "t", "p", ".">>
    \/ Len(url) >= 7 /\ SubSeq(url, 1, 7) = <<"/", "h", "t", "t", "p", "s", ".">>

\* The position of the second "/" of url, or Len(url) + 1.
SegmentEnd(url) ==
    IF \E i \in 2..Len(url) : url[i] = "/"
    THEN CHOOSE i \in 2..Len(url) : url[i] = "/" /\ \A j \in 2..(i - 1) : url[j] # "/"
    ELSE Len(url) + 1

ExpectedOrigin(url) ==
    LET seg == SubSeq(url, 2, SegmentEnd(url) - 1)
        d == CHOOSE i \in 1..Len(seg) : seg[i] = "." /\ \A j \in 1..(i - 1) : seg[j] # "."
    IN  SubSeq(seg, 1, d - 1) \o <<":", "/", "/">> \o SubSeq(seg, d + 1, Len(seg))

ExpectedUrl(url) ==
    IF SegmentEnd(url) > Len(url) THEN <<"/">> ELSE SubSeq(url, SegmentEnd(url), Len(url))

C9_ListOrderNoRepeats ==
    \A c \in Clients :
        LET r == reqs[c]
            as == r.attempts
            l == InboundList(r)
        IN  r.route = "list" =>
                /\ Len(l) > 0 /\ ~BeginsWithOrigin(r.url)
                /\ Len(as) >= 1 /\ as[1].index = 0
                /\ \A i \in 1..Len(as) :
                    /\ as[i].index \in 0..(Len(l) - 1)
                    /\ as[i].proxyTarget = l[as[i].index + 1]
                    /\ as[i].url = r.url
                    /\ \A j \in 1..as[i].index : l[j] # as[i].proxyTarget
                    /\ \A j \in 1..(i - 1) :
                        as[j].index < as[i].index /\ as[j].proxyTarget # as[i].proxyTarget
                    /\ \A k \in 0..(as[i].index - 1) :
                        \E j \in 1..(i - 1) : as[j].proxyTarget = l[k + 1]

\* The list ["http://a","http://a","https://b"]: a failed, its repetition
\* was skipped and b was attempted with index 2.
C9_Witness ==
    \E c \in Clients :
        LET r == reqs[c]
        IN  /\ r.route = "list"
            /\ InboundList(r) = <<OriginA, OriginA, OriginB>>
            /\ Len(r.attempts) = 2
            /\ r.attempts[1].index = 0 /\ r.attempts[2].index = 2
            /\ r.attempts[2].proxyTarget = OriginB

(***************************************************************************)
(* C10.  A request whose URL does not begin with /http. or /https. and     *)
(* whose proxyTargets list is empty or absent makes exactly one attempt,   *)
(* to the fallback origin with the upstream URL "/", whatever path and     *)
(* query it asked for.                                                     *)
(***************************************************************************)
C10_Fallback ==
    \A c \in Clients :
        LET r == reqs[c]
        IN  ( /\ Resolved(r) /\ ~BeginsWithOrigin(r.url)
              /\ r.cookie.kind \in {"absent", "json"} /\ r.cookie.list = <<>> )
            => /\ Len(r.attempts) = 1
               /\ r.attempts[1].proxyTarget =
                      <<"h", "t", "t", "p", "s", ":", "/", "/", "w", "w", "w", ".",
                        "e", "x", "a", "m", "p", "l", "e", ".", "c", "o", "m">>
               /\ r.attempts[1].url = <<"/">>
               /\ r.attempts[1].index = -1

\* GET /p?q without the cookie has been answered by the fallback origin.
C10_Witness ==
    \E c \in Clients :
        LET r == reqs[c]
        IN  /\ r.pc = "done" /\ r.res.sent
            /\ r.url = UrlPathQuery /\ r.cookie = CookieAbsent
            /\ Len(r.attempts) = 1 /\ r.attempts[1].outcome = "responded"
            /\ r.attempts[1].url = <<"/">>

(***************************************************************************)
(* C11.  A request whose proxyTargets cookie is absent or is not valid     *)
(* JSON is handled as if its list were empty: it reaches the resolver, is  *)
(* resolved by the explicit-origin or fallback rule and an attempt is made *)
(* for it; it is not answered 500 before any attempt.                      *)
(* The code lets JSON.parse throw inside the cookie middleware, and the    *)
(* error middleware answers 500.                                           *)
(***************************************************************************)
C11_BadCookieAsEmpty ==
    \A c \in Clients :
        LET r == reqs[c]
        IN  (r.pc # "idle" /\ r.cookie.kind \in {"absent", "malformed"}) =>
                /\ Resolved(r)
                /\ r.route = "direct"
                /\ Len(r.attempts) = 1

(***************************************************************************)
(* Vocabulary of the cookie properties.                                    *)
(***************************************************************************)
\* n underscores followed by 'proxyTargets'
EscapedName(n) == [i \in 1..n |-> "_"] \o ProxyTargetsName

\* The deepest escaping the exchange can reach.
MaxDepth == Len(Underscores) + 1

\* The value of the Cookie header of a header set, empty when there is none.
CookieValueOf(headers) ==
    IF \E i \in 1..Len(headers) : headers[i].name = "cookie"
    THEN headers[CHOOSE i \in 1..Len(headers) : headers[i].name = "cookie"].value
    ELSE <<>>

\* The cookies of a Cookie header, as name=value strings.
CookiesOf(headers) ==
    LET parts == Split(CookieValueOf(headers), ";")
    IN  [i \in 1..Len(parts) |-> Trim(parts[i])]

\* How many cookies of the header set have this name.
CountNamed(headers, name) ==
    LET cs == CookiesOf(headers)
    IN  Cardinality({i \in 1..Len(cs) : StartsWith(cs[i], name \o <<"=">>)})

HasHeader(headers, name) == \E i \in 1..Len(headers) : headers[i].name = name

NoLengthOrEncoding(headers) ==
    /\ ~HasHeader(headers, "content-length")
    /\ ~HasHeader(headers, "content-encoding")
    /\ ~HasHeader(headers, "transfer-encoding")

(***************************************************************************)
(* C12 as stated.  The header set sent to the upstream contains no         *)
(* content-length, content-encoding or transfer-encoding header, no cookie *)
(* named proxyTargets and no cookie named by one or more underscores and   *)
(* proxyTargets.                                                           *)
(* The code sends such cookies: they are the upstream's own, unescaped.    *)
(***************************************************************************)
C12_NoSuchCookieUpstream ==
    exchange.stage = "sent" =>
        /\ NoLengthOrEncoding(exchange.outbound)
        /\ \A n \in 0..MaxDepth : CountNamed(exchange.outbound, EscapedName(n)) = 0

(***************************************************************************)
(* C12 as amended.  The header set sent to the upstream contains no        *)
(* content-length, content-encoding or transfer-encoding header, and no    *)
(* cookie that comes from the inbound cookie named exactly proxyTargets:   *)
(* for every n >= 0 it holds as many cookies named by n underscores and    *)
(* proxyTargets as the inbound set holds with n+1 underscores.             *)
(***************************************************************************)
C12_OnlyUnescapedUpstream ==
    exchange.stage = "sent" =>
        /\ NoLengthOrEncoding(exchange.outbound)
        /\ \A n \in 0..MaxDepth :
              CountNamed(exchange.outbound, EscapedName(n))
                  = CountNamed(exchange.inbound, EscapedName(n + 1))

\* A request with Content-Length and Content-Encoding whose cookies hold the
\* proxy's state cookie and an escaped upstream cookie has been translated.
C12_Witness ==
    /\ exchange.stage = "sent"
    /\ HasHeader(exchange.inbound, "content-length")
    /\ HasHeader(exchange.inbound, "content-encoding")
    /\ CountNamed(exchange.inbound, ProxyTargetsName) = 1
    /\ CountNamed(exchange.inbound, EscapedName(2)) = 1
    /\ CountNamed(exchange.outbound, EscapedName(1)) = 1

(***************************************************************************)
(* C13.  Cookie-name escaping round-trips.  A cookie an upstream sets      *)
(* under a name of n >= 0 underscores followed by proxyTargets is stored   *)
(* by the browser with n+1 underscores, and when the browser sends it back *)
(* the upstream receives it with n underscores and the same value; under   *)
(* any other name the cookie is stored and sent back with its name and     *)
(* value unchanged.                                                        *)
(***************************************************************************)
\* The name the browser must hold the upstream's cookie under.
ClientNameOf(name) ==
    IF name \in EscapableNames THEN <<"_">> \o name ELSE name

C13_EscapingRoundTrips ==
    LET o == exchange.origin
    IN  /\ exchange.stage \in {"stored", "sent"} =>
              \E i \in 1..Len(exchange.jar) :
                  exchange.jar[i] = Cookie(ClientNameOf(o.name), o.value)
        /\ exchange.stage = "sent" =>
              LET cs == CookiesOf(exchange.outbound)
              IN  \E i \in 1..Len(cs) : cs[i] = o.name \o <<"=">> \o o.value

\* An upstream cookie named _proxyTargets has made the round trip.
C13_Witness ==
    /\ exchange.stage = "sent"
    /\ exchange.origin.name = EscapedName(1)
    /\ \E i \in 1..Len(exchange.jar) : exchange.jar[i].name = EscapedName(2)
    /\ CountNamed(exchange.outbound, EscapedName(1)) = 1

(***************************************************************************)
(* C14.  No upstream response can overwrite the proxy's state cookie:      *)
(* whatever Set-Cookie headers the relayed upstream response carries, the  *)
(* response to the client sets exactly one cookie under the exact name     *)
(* proxyTargets, the proxy's own, and its value is the JSON text of the    *)
(* origin list after mutation.                                             *)
(***************************************************************************)
\* The cookies the response to the client sets under this name.
CookiesNamed(res, name) == SelectSeq(res.cookies, LAMBDA k : k.name = name)

\* The handler has translated the headers of an upstream response.
Relays(r) == r.pc \in {"text", "pipe", "done"} /\ r.response.defined

C14_StateCookieNotOverwritten ==
    \A c \in Clients :
        LET r == reqs[c]
            own == CookiesNamed(r.res, ProxyTargetsName)
        IN  /\ Relays(r) =>
                /\ Len(own) = 1
                /\ own[1].value = StringifyList(r.proxyTargets)
                /\ own[1] = r.res.cookies[Len(r.res.cookies)]
            /\ ~Relays(r) => Len(own) = 0

\* The upstream set a cookie named proxyTargets; the client is sent it as
\* _proxyTargets, next to the proxy's own.
C14_Witness ==
    \E c \in Clients :
        LET r == reqs[c]
        IN  /\ Relays(r)
            /\ \E i \in 1..Len(r.response.headers) : r.response.headers[i] = SetCookieClash
            /\ Len(CookiesNamed(r.res, EscapedName(1))) = 1
            /\ CookiesNamed(r.res, EscapedName(1))[1].value = <<"e", "v", "i", "l">>
            /\ Len(r.proxyTargets) > 0

(***************************************************************************)
(* Vocabulary of the rewriter properties.                                  *)
(***************************************************************************)
\* The text after the first pass of the rewriter.
Rewritten == page.results[1]

\* The matches of the URL grammar in a text, found from left to right as the
\* rewriter finds them.
RECURSIVE MatchesFrom(_, _)
MatchesFrom(s, i) ==
    IF i > Len(s) THEN <<>>
    ELSE LET m == UrlMatchAt(s, i)
         IN  IF m.ok THEN <<m>> \o MatchesFrom(s, m.end) ELSE MatchesFrom(s, i + 1)

\* The URL of the page has a scheme.
HasScheme(url) == ProtocolLen(url) > 0

(***************************************************************************)
(* C15.  The URL rewriter is idempotent: applying injectProxyTarget twice  *)
(* yields the same text as applying it once.                               *)
(* The code matches the proxy-form URLs it has written and rewrites them   *)
(* again.                                                                  *)
(***************************************************************************)
C15_Idempotent ==
    Len(page.results) >= 2 => page.results[2] = page.results[1]

(***************************************************************************)
(* C16.  In the rewritten text, every match of the URL grammar has the     *)
(* proxy host as its authority: no user info, and host and port are the    *)
(* proxy host.                                                             *)
(* After '//' the code leaves a text in which the grammar matches a URL    *)
(* whose authority is 'http:'.                                             *)
(***************************************************************************)
C16_OnlyProxyAuthority ==
    Len(page.results) >= 1 =>
        LET ms == MatchesFrom(Rewritten, 1)
        IN  \A k \in 1..Len(ms) :
                ms[k].userInfo = <<>> /\ ms[k].host \o ms[k].port = page.proxyDomain

(***************************************************************************)
(* C17.  A matched URL without a scheme is rewritten to a URL without a    *)
(* scheme prefix before its leading double delimiter, whose encoded origin *)
(* segment uses 'http.'; a matched URL with a scheme is rewritten to a URL *)
(* that starts with 'http:' and whose encoded segment uses that scheme.    *)
(* The code writes 'http:' before every rewritten URL.                     *)
(***************************************************************************)
\* The replacement of one match as specified.
ReplacementAsSpecified(m, proxyDomain) ==
    (IF m.protocol = <<>> THEN <<>> ELSE <<"h", "t", "t", "p", ":">>)
        \o m.delimiter \o m.delimiter \o proxyDomain \o m.delimiter
        \o (IF m.protocol = <<>> THEN <<"h", "t", "t", "p", ".">>
            ELSE SubSeq(m.protocol, 1, Len(m.protocol) - 1) \o <<".">>)
        \o m.userInfo \o m.host \o m.port \o m.path \o m.query \o m.fragment

RECURSIVE RewriteAsSpecified(_, _, _)
RewriteAsSpecified(html, i, proxyDomain) ==
    IF i > Len(html) THEN <<>>
    ELSE LET m == UrlMatchAt(html, i)
         IN  IF m.ok THEN ReplacementAsSpecified(m, proxyDomain)
                              \o RewriteAsSpecified(html, m.end, proxyDomain)
             ELSE <<html[i]>> \o RewriteAsSpecified(html, i + 1, proxyDomain)

DelimiterOf(url) ==
    LET n == ProtocolLen(url)
    IN  IF url[n + 1] = "/" THEN <<"/">>
        ELSE IF url[n + 2] = "/" THEN SubSeq(url, n + 1, n + 2)
        ELSE SubSeq(url, n + 1, n + 6)

SchemeWireOf(url) ==
    LET n == ProtocolLen(url)
    IN  IF n = 0 THEN <<"h", "t", "t", "p", ".">> ELSE SubSeq(url, 1, n - 1) \o <<".">>

AfterAuthorityMark(url) ==
    SubSeq(url, ProtocolLen(url) + 2 * Len(DelimiterOf(url)) + 1, Len(url))

C18_GuardedUrlsUntouched ==
    (/\ Len(page.results) >= 1
     /\ \/ page.context = BackslashContext
        \/ page.context \in {XmlnsContext, XmlnsSpacedContext} /\ HasScheme(page.url))
        => Rewritten = page.html

(***************************************************************************)
(* Vocabulary of the body properties.                                      *)
(***************************************************************************)
\* The words that make a Content-Type textual.
TextualWords ==
    {<<"h", "t", "m", "l">>, <<"c", "s", "s">>, <<"s", "c", "s", "s">>, <<"s", "v", "g">>,
     <<"j", "a", "v", "a", "s", "c", "r", "i", "p", "t">>, <<"j", "s", "o", "n">>,
     <<"t", "e", "x", "t">>}

\* sub occurs in s
Occurs(sub, s) ==
    \E i \in 1..(Len(s) - Len(sub) + 1) : SubSeq(s, i, i + Len(sub) - 1) = sub

ContainsTextualWord(type) == \E w \in TextualWords : Occurs(w, type)

\* The handler has sent the body of an upstream response that has a
\* Content-Type (one without is sent with an empty body).
BodySent(r) == r.pc = "done" /\ r.res.sent /\ r.res.body \in {"rewritten", "piped"}

(***************************************************************************)
(* C19.  The body of an upstream response that has a Content-Type is       *)
(* passed through the URL rewriter if and only if the Content-Type         *)
(* contains one of html, css, scss, svg, javascript, json, text; then the  *)
(* client is sent the rewritten body, and for every other Content-Type it  *)
(* is sent exactly the bytes of the upstream body.                         *)
(***************************************************************************)
C19_RewrittenIffTextual ==
    \A c \in Clients :
        LET r == reqs[c]
        IN  /\ (r.pc \in {"text", "pipe"} /\ r.response.defined) =>
                   (r.pc = "text" <=> ContainsTextualWord(r.response.type))
            /\ BodySent(r) =>
                   /\ r.res.body = "rewritten" <=> ContainsTextualWord(r.response.type)
                   /\ r.res.body = "rewritten" =>
                          r.res.bytes = injectProxyTarget(r.response.body, ProxyHost)
                   /\ r.res.body = "piped" => r.res.bytes = r.response.body

\* An svg image with a URL in it has been sent rewritten.
C19_Witness ==
    \E c \in Clients :
        LET r == reqs[c]
        IN  /\ BodySent(r)
            /\ r.response.type = TypeSvg
            /\ r.response.body = BodyWithUrl
            /\ r.res.bytes # r.response.body
            /\ r.res.bytes = injectProxyTarget(BodyWithUrl, ProxyHost)

(***************************************************************************)
(* C20.  For every upstream response with a non-textual Content-Type the   *)
(* client receives the upstream status, a Content-Length equal to the      *)
(* number of body bytes it is sent, and exactly the upstream body bytes,   *)
(* whether or not the upstream response carried a Content-Length.          *)
(* Without an upstream Content-Length the code sets the header to null.    *)
(***************************************************************************)
C20_PipedWithLength ==
    \A c \in Clients :
        LET r == reqs[c]
        IN  (BodySent(r) /\ ~ContainsTextualWord(r.response.type)) =>
                /\ r.res.status = r.response.status
                /\ r.res.contentLength = LengthOf(Len(r.res.bytes))
                /\ r.res.bytes = r.response.body

(***************************************************************************)
(* Vocabulary of the limiter's steps.  A step in which client c calls      *)
(* sendBrowserRequest appends one entry to its log of attempts (a request  *)
(* that arrives starts a new log).                                         *)
(***************************************************************************)
Attempts(c) ==
    /\ Len(reqs'[c].attempts) > 0
    /\ \/ reqs[c].pc \in {"idle", "done"} /\ arrivals' # arrivals /\ reqs'[c].pc # "idle"
                                          /\ \A d \in Clients \ {c} : reqs'[d] = reqs[d]
       \/ reqs[c].pc \in {"fetch", "limited"}
            /\ Len(reqs'[c].attempts) = Len(reqs[c].attempts) + 1

\* The entry checkRateLimit pushes for attempt a of request r at time t.
EntryOf(r, a, t) == RateEntry(r.ip, ReqUserAgentProperty(r), a.proxyTarget, PathOf(a.url), t)

\* The limiter compares all four fields of an entry (src/app.js:291).
Alike(e, f) ==
    e.ip = f.ip /\ e.userAgent = f.userAgent /\ e.proxyTarget = f.proxyTarget /\ e.path = f.path

\* Entry e's fingerprint has an attempt answered with 429 in some log.
RejectedBefore(e) ==
    \E d \in Clients : \E k \in 1..Len(reqs[d].attempts) :
        /\ reqs[d].attempts[k].kind = "limited"
        /\ Alike(EntryOf(reqs[d], reqs[d].attempts[k], 0), e)

\* The oldest entry of e's fingerprint in the queue is older than one window.
OldestExpired(e) ==
    \E i \in 1..Len(recentRequests) :
        /\ Alike(recentRequests[i], e)
        /\ \A j \in 1..(i - 1) : ~Alike(recentRequests[j], e)
        /\ now - recentRequests[i].time > rateLimitWindow

(***************************************************************************)
(* C21.  After a fingerprint has been rejected with 429, the first attempt *)
(* with that fingerprint made after its oldest queued entry has aged past  *)
(* rateLimitWindow is admitted: in every step in which a client makes an   *)
(* attempt whose fingerprint has been rejected before and whose oldest     *)
(* queued entry is older than one window, the attempt is not answered 429. *)
(* The code queues and counts the rejected attempts too, so the entries    *)
(* younger than the oldest one can keep the fingerprint over the limit.    *)
(***************************************************************************)
C21_AdmittedAfterOldestExpires ==
    [][\A c \in Clients :
          LET a == Last(reqs'[c].attempts)
              e == EntryOf(reqs'[c], a, now)
          IN  (Attempts(c) /\ RejectedBefore(e) /\ OldestExpired(e)) => a.kind # "limited"]_vars

(***************************************************************************)
(* C22.  The limiter counts attempts per fingerprint (client address,      *)
(* User-Agent, origin, path without query): an attempt is answered 429 if  *)
(* and only if rateLimitCount attempts with the same four components were  *)
(* admitted within the window before it, so attempts that differ only in   *)
(* User-Agent never count against each other and attempts that differ only *)
(* in the query string do.  (In the dispatch workload every queued entry   *)
(* is an admitted attempt.)                                                *)
(* The code passes req['user-agent'], which no request has, so the second  *)
(* component is the same for every request.                                *)
(***************************************************************************)
C22_FourComponents ==
    [][\A c \in Clients :
          LET r == reqs'[c]
              a == Last(r.attempts)
          IN  Attempts(c) =>
                (a.kind = "limited" <=>
                    AdmittedLike(RateEntry(r.ip, r.userAgent, a.proxyTarget, PathOf(a.url), now))
                        >= rateLimitCount)]_vars

(***************************************************************************)
(* C23.  The URL composed for an attempt (origin and rewritten path).      *)
(***************************************************************************)
ComposedUrl(a) == a.proxyTarget \o a.url

(***************************************************************************)
(* C23 as stated.  When the composed upstream URL of an attempt does not   *)
(* match the validation grammar, no upstream request is issued for it and  *)
(* the client request ends with status 500.                                *)
(* An attempt the limiter rejects returns 429 before its URL is validated  *)
(* (src/app.js:309-314), and the request then ends with that 429 or with   *)
(* the answer of a later candidate.                                        *)
(***************************************************************************)
C23_InvalidUrlFails500 ==
    \A c \in Clients :
        LET r == reqs[c]
        IN  \A i \in 1..Len(r.attempts) :
                ~urlValidationRegex(ComposedUrl(r.attempts[i])) =>
                    /\ r.attempts[i].kind # "fetch"
                    /\ r.pc = "done" => r.res.status = 500

(***************************************************************************)
(* C23, amended.  When the composed upstream URL of an attempt does not    *)
(* match the validation grammar, no upstream request is issued for it,     *)
(* and, unless the limiter rejected the attempt, the attempt is the last   *)
(* of its request and the request has ended with status 500.               *)
(***************************************************************************)
C23_AdmittedInvalidUrlFails500 ==
    \A c \in Clients :
        LET r == reqs[c]
        IN  \A i \in 1..Len(r.attempts) :
                ~urlValidationRegex(ComposedUrl(r.attempts[i])) =>
                    /\ r.attempts[i].kind # "fetch"
                    /\ r.attempts[i].outcome = "none"
                    /\ r.attempts[i].kind # "limited" =>
                          /\ i = Len(r.attempts)
                          /\ r.pc = "done"
                          /\ r.res.sent
                          /\ r.res.status = 500

\* The second candidate of a list, a bare host name, gives an invalid URL
\* after the first candidate was answered 503: the request has ended with 500.
C23_Witness ==
    \E c \in Clients :
        LET r == reqs[c]
        IN  /\ Len(r.attempts) = 2
            /\ r.attempts[1].outcome = "responded"
            /\ ~urlValidationRegex(ComposedUrl(r.attempts[2]))
            /\ r.attempts[2].kind = "invalid"
            /\ r.pc = "done"
            /\ r.res.status = 500

(***************************************************************************)
(* C24.  If the client disconnects while its request is being dispatched,  *)
(* the upstream request in flight is cancelled, no further candidate is    *)
(* attempted, and after the disconnect no state other than the queue       *)
(* recentRequests is changed: no request whose client has gone has a fetch *)
(* in flight, and no step changes the record of such a request.            *)
(* The code does not observe the disconnect: the fetch stays in flight,    *)
(* the loop goes on to the next candidate, and the list and the response   *)
(* are written as for a connected client.                                  *)
(***************************************************************************)
C24_DisconnectCancels ==
    [][\A c \in Clients :
          /\ reqs'[c].closed => reqs'[c].pc # "fetch"
          /\ (reqs[c].closed /\ reqs'[c].closed) =>
                /\ Len(reqs'[c].attempts) = Len(reqs[c].attempts)
                /\ reqs'[c] = reqs[c]]_vars

(***************************************************************************)
(* C25.  The list written to the proxyTargets cookie of the response, and  *)
(* the origin whose answer the handler relays.                             *)
(***************************************************************************)
OutboundList(r) == r.res.proxyTargetsCookie.list

Producer(r) == Last(r.attempts).proxyTarget

HeadIsProducer(r) == Len(OutboundList(r)) > 0 /\ OutboundList(r)[1] = Producer(r)

(***************************************************************************)
(* C25 as stated.  After any request that is answered with a 2xx response, *)
(* index 0 of the outbound proxyTargets list is the origin that produced   *)
(* that response, whichever resolution rule chose it and whatever the      *)
(* method and the content type.                                            *)
(* An explicit or fallback origin is put at index 0 only for a GET that is *)
(* answered with an HTML content type (src/app.js:381-387).                *)
(***************************************************************************)
C25_HeadIsLastSuccess ==
    \A c \in Clients : Relays2xx(reqs[c]) => HeadIsProducer(reqs[c])

(***************************************************************************)
(* C25, amended.  After a request that is answered with a 2xx response,    *)
(* index 0 of the outbound proxyTargets list is the origin that produced   *)
(* that response when the origin was a candidate of the cookie list        *)
(* (whatever the method and the content type), or when it was an explicit  *)
(* or fallback origin and the request is a GET answered with an HTML       *)
(* content type.                                                           *)
(***************************************************************************)
C25_HeadIsLastSuccessOfListOrHtmlGet ==
    \A c \in Clients :
        LET r == reqs[c]
        IN  ( /\ Relays2xx(r)
              /\ \/ r.route = "list"
                 \/ r.method = "GET" /\ r.response.hasType /\ Includes(r.response.type, HtmlWord) )
            => /\ Last(r.attempts).outcome = "responded"
               /\ Last(r.attempts).status = r.res.status
               /\ HeadIsProducer(r)

\* A POST through the cookie list ["https://b","http://a"] was answered 2xx by
\* the second candidate, and the fallback origin has answered a GET with HTML.
C25_Witness ==
    \E c \in Clients :
        LET r == reqs[c]
        IN  /\ Relays2xx(r) /\ r.pc = "done" /\ r.res.sent
            /\ \/ /\ r.route = "list" /\ r.method = "POST"
                  /\ Last(r.attempts).index = 1
                  /\ OutboundList(r) = <<OriginA>>
               \/ /\ r.route = "direct" /\ ~IsExplicit(r.url)
                  /\ OutboundList(r) = <<fallBackDomain>>

(***************************************************************************)
(* C26.  An error is raised in a step of request c: the request ends       *)
(* without a response to relay (the cookie does not parse, the URL is not  *)
(* valid, the fetch rejects, the handler throws), or the reading of the    *)
(* body fails.                                                             *)
(***************************************************************************)
Raises(c) ==
    /\ reqs'[c] # reqs[c]
    /\ reqs'[c].pc = "done"
    /\ \/ ~reqs'[c].response.defined
       \/ reqs[c].pc = "text" /\ reqs'[c].res.body # "rewritten"

\* The queue after the limiter was asked for the attempt, if any, that
\* request c makes in the step.
QueueWithEntriesOf(c) ==
    IF Attempts(c)
    THEN LET e == EntryOf(reqs'[c], Last(reqs'[c].attempts), now)
         IN  checkRateLimit(recentRequests, e.ip, e.userAgent, e.proxyTarget, e.path, now).queue
    ELSE recentRequests

\* Every entry has the five fields, and the entries are in the order of their
\* time stamps.
WellFormed(q) ==
    /\ \A i \in 1..Len(q) : DOMAIN q[i] = {"ip", "userAgent", "proxyTarget", "path", "time"}
    /\ \A i, j \in 1..Len(q) : i <= j => q[i].time <= q[j].time

(***************************************************************************)
(* C26.  Any uncaught error raised while handling a request yields status  *)
(* 500 for that request only: the queue recentRequests stays well-formed   *)
(* and holds what it would hold had the request only contributed its rate- *)
(* limit entries, and no other request's record is changed, so every later *)
(* request is decided as if the failing one had only made its entries.     *)
(***************************************************************************)
C26_ErrorIsLocal ==
    [][\A c \in Clients :
          Raises(c) =>
            /\ reqs'[c].res.sent /\ reqs'[c].res.status = 500
            /\ \A d \in Clients \ {c} : reqs'[d] = reqs[d]
            /\ recentRequests' = QueueWithEntriesOf(c)
            /\ WellFormed(recentRequests')
            /\ now' = now]_vars

\* A request has failed with 500 on the invalid URL of its second candidate,
\* after contributing two entries to the queue, and the other client's
\* request, made after that, has been answered by its first candidate.
C26_Witness ==
    \E c, d \in Clients :
        /\ c # d
        /\ reqs[c].pc = "done" /\ reqs[c].res.status = 500 /\ ~reqs[c].response.defined
        /\ Len(reqs[c].attempts) = 2 /\ Last(reqs[c].attempts).kind = "invalid"
        /\ reqs[d].pc = "done" /\ reqs[d].res.status = 200
        /\ Len(reqs[d].attempts) = 1
        /\ \E i \in 1..(Len(recentRequests) - 1) :
                /\ recentRequests[i].proxyTarget = OriginC
                /\ recentRequests[i + 1].proxyTarget = OriginA

(***************************************************************************)
(* C27.  Dispatch has finished for the request: the handler has its        *)
(* response, or the request has ended.                                     *)
(***************************************************************************)
DispatchFinished(r) == r.pc \in {"text", "pipe", "done"}

\* No branch of a tee is left open: each was read by a fetch, split again, or
\* cancelled.
NoOpenBranch(r) ==
    \A i \in 1..Len(r.bodyStreamTees) :
        r.bodyStreamTees[i].kept # "open" /\ r.bodyStreamTees[i].passed # "open"

(***************************************************************************)
(* C27.  For a request with a body (a method other than GET, HEAD, TRACE)  *)
(* that goes through the cookie list, after dispatch finishes every tee    *)
(* branch created during the candidate loop has been consumed by an        *)
(* upstream request or cancelled; in particular, after a candidate         *)
(* succeeds, the branch kept for the next candidate is not left open.      *)
(* The code never cancels a branch: the branch kept by the last tee stays  *)
(* open, and so does the branch passed to an attempt the limiter rejects.  *)
(***************************************************************************)
C27_TeeBranchesReleased ==
    \A c \in Clients :
        LET r == reqs[c]
        IN  (r.route = "list" /\ r.method \notin BodylessMethods /\ DispatchFinished(r))
                => NoOpenBranch(r)

(***************************************************************************)
(* C28.  The limiter's verdict on the attempt client c makes in the step   *)
(* is the one its own append-evict-count sequence gives: the queue after   *)
(* the step is the queue before it with c's entry appended and the expired *)
(* entries evicted, and the attempt is answered 429 exactly if more than   *)
(* rateLimitCount entries of that queue are like c's.                      *)
(***************************************************************************)
OwnSequence(c) ==
    LET e == EntryOf(reqs'[c], Last(reqs'[c].attempts), now)
    IN  /\ recentRequests' = ShiftExpired(Append(recentRequests, e), now)
        /\ Last(reqs'[c].attempts).kind = "limited"
              <=> CountMatching(recentRequests', e.ip, e.userAgent, e.proxyTarget, e.path)
                    > rateLimitCount

\* At most rateLimitCount attempts of a fingerprint were admitted in the
\* window that ends now.
AdmittedWithinLimit == \A i \in 1..Len(admitted) : AdmittedLike(admitted[i]) <= rateLimitCount

(***************************************************************************)
(* C28.  Under any interleaving of concurrently handled requests, the      *)
(* append-evict-count sequence of one attempt is never interleaved with    *)
(* that of another attempt: every step that changes the queue is the whole *)
(* sequence of one attempt of one request, no other request moves in it,   *)
(* and the bound of rateLimitCount admitted attempts per fingerprint and   *)
(* window holds after it, also when the attempts come from concurrent      *)
(* requests.                                                               *)
(***************************************************************************)
C28_LimiterAtomic ==
    [][recentRequests' # recentRequests =>
          /\ \E c \in Clients :
                /\ Attempts(c)
                /\ \A d \in Clients \ {c} : reqs'[d] = reqs[d]
                /\ OwnSequence(c)
          /\ AdmittedWithinLimit']_vars

\* Two requests are handled at once, one with its fetch in flight and one
\* just answered 429, the limit being reached by attempts of both clients.
C28_Witness ==
    \E c, d \in Clients :
        /\ c # d
        /\ reqs[c].pc = "fetch"
        /\ reqs[d].pc = "limited"
        /\ Len(recentRequests) > rateLimitCount
        /\ Len(admitted) >= rateLimitCount

(***************************************************************************)
(* C29.  After every call of checkRateLimit (the clock of the model never  *)
(* goes back), the queue recentRequests is in the order of its time        *)
(* stamps, its last entry is the entry of the current attempt, also when   *)
(* that attempt is rejected, and it holds no entry older than              *)
(* rateLimitWindow.                                                        *)
(***************************************************************************)
C29_QueueAfterCall ==
    [][\A c \in Clients :
          Attempts(c) =>
            /\ WellFormed(recentRequests')
            /\ Len(recentRequests') > 0
            /\ Last(recentRequests') = EntryOf(reqs'[c], Last(reqs'[c].attempts), now)
            /\ \A i \in 1..Len(recentRequests') :
                    now - recentRequests'[i].time <= rateLimitWindow]_vars

\* An attempt has just been rejected by a call that evicted the entries of
\* time 0: the queue begins with a later entry and ends with the entry of the
\* rejected attempt.
C29_Witness ==
    \E c \in Clients :
        /\ reqs[c].pc = "limited"
        /\ Len(recentRequests) > rateLimitCount
        /\ recentRequests[1].time > 0
        /\ Last(recentRequests).time = now
        /\ Last(recentRequests).proxyTarget = reqs[c].proxyTarget

(***************************************************************************)
(* C30.  For every upstream response that has no Content-Type header,      *)
(* whatever its status, the request method and the resolution rule used,   *)
(* the client receives the upstream status with an empty body and not an   *)
(* error response: a response without the header that the handler relays   *)
(* is sent empty with its status, and whatever answer without the header   *)
(* an explicit or fallback origin gives to the fetch in flight, the        *)
(* handler relays it so.                                                   *)
(* For a GET answered 2xx by an explicit or fallback origin the code calls *)
(* includes on the missing header value and the request ends with 500.     *)
(***************************************************************************)
C30_NoTypeRelayedEmpty ==
    \A c \in Clients :
        LET r == reqs[c]
        IN  /\ (r.pc = "done" /\ r.response.defined /\ ~r.response.hasType) =>
                    /\ r.res.sent
                    /\ r.res.status = r.response.status
                    /\ r.res.body = "empty"
            /\ (r.route = "direct" /\ r.pc = "fetch") =>
                    \A a \in upstream :
                        ~a.ct.hasType =>
                            LET out == ContinueDirect(
                                           [r EXCEPT !.attempts = Settle(@, "responded", a.status)],
                                           ResponseOf(a))
                            IN  /\ out.pc = "done"
                                /\ out.response.defined
                                /\ out.res.status = a.status
                                /\ out.res.body = "empty"

(***************************************************************************)
(* C31.  The returned response meets neither rule that changes the list:   *)
(* it is not 2xx, or it comes from index 0 of the list, or it comes from   *)
(* an explicit or fallback origin and the method is not GET, the content   *)
(* type is not HTML, or the origin is at the head of the list already.     *)
(***************************************************************************)
MeetsNoMutationRule(r) ==
    \/ ~(r.response.status >= 200 /\ r.response.status <= 299)
    \/ r.route = "list" /\ Last(r.attempts).index = 0
    \/ /\ r.route = "direct"
       /\ \/ r.method # "GET"
          \/ ~Includes(r.response.type, HtmlWord)
          \/ Len(InboundList(r)) > 0 /\ InboundList(r)[1] = Producer(r)

(***************************************************************************)
(* C31.  The origin list is left unchanged by every request that meets     *)
(* neither mutation rule: the proxyTargets cookie written with the         *)
(* returned response holds the inbound list; a dispatch through the cookie *)
(* list never adds an entry or reorders the list (what it writes is the    *)
(* inbound list without some of its first entries); and a request that     *)
(* ends without a returned response writes no proxyTargets cookie.         *)
(***************************************************************************)
C31_ListUnchanged ==
    \A c \in Clients :
        LET r == reqs[c]
            l == InboundList(r)
        IN  /\ (Relays(r) /\ MeetsNoMutationRule(r)) => r.res.proxyTargetsCookie = CookieJson(l)
            /\ (Relays(r) /\ r.route = "list") =>
                    \E k \in 0..Len(l) : r.res.proxyTargetsCookie = CookieJson(DropFirst(l, k))
            /\ (r.pc = "done" /\ ~r.response.defined) => r.res.proxyTargetsCookie = CookieAbsent

\* A POST to the explicit origin http://a was answered 200 with HTML and the
\* response has been sent with the inbound list ["https://b"].
C31_Witness ==
    \E c \in Clients :
        LET r == reqs[c]
        IN  /\ r.route = "direct" /\ r.method = "POST"
            /\ r.pc = "done" /\ r.res.sent /\ r.res.status = 200
            /\ Includes(r.response.type, HtmlWord)
            /\ Producer(r) = OriginA
            /\ InboundList(r) = <<OriginB>>
            /\ r.res.proxyTargetsCookie = CookieJson(<<OriginB>>)

(***************************************************************************)
(* C32.  The request of client c is being handled; it has been answered.   *)
(***************************************************************************)
Handled(c) == reqs[c].pc \in {"fetch", "limited", "text", "pipe"}

Answered(c) == reqs[c].pc = "done" /\ reqs[c].res.sent /\ reqs[c].res.status > 0

\* The candidate loop has made at most one attempt per entry of the list: the
\* attempts are at increasing indices of the list.
OneAttemptPerEntry(r) ==
    r.route = "list" =>
        /\ Len(r.attempts) <= Len(InboundList(r))
        /\ \A i, j \in 1..Len(r.attempts) :
                i < j => r.attempts[i].index < r.attempts[j].index
        /\ \A i \in 1..Len(r.attempts) : r.attempts[i].index < Len(InboundList(r))

(***************************************************************************)
(* C32.  Every client request eventually receives exactly one response,    *)
(* provided each upstream request eventually returns a response or fails:  *)
(* the candidate loop makes at most one attempt per list entry, a request  *)
(* that has ended has been sent a response, nothing is sent while it is    *)
(* being handled and its response is not touched once it is sent, and a    *)
(* request being handled is eventually answered.                           *)
(***************************************************************************)
C32_EventuallyOneResponse ==
    /\ [](\A c \in Clients :
            /\ OneAttemptPerEntry(reqs[c])
            /\ reqs[c].pc = "done" => Answered(c)
            /\ Handled(c) => ~reqs[c].res.sent)
    /\ [][\A c \in Clients :
            (Answered(c) /\ arrivals' = arrivals) => reqs'[c].res = reqs[c].res]_vars
    /\ \A c \in Clients : Handled(c) ~> Answered(c)

\* The loop has ended after one attempt for each distinct entry of the list
\* ["https://b","http://a","https://b"], none of them a success, and the
\* response has been sent.
C32_Witness ==
    \E c \in Clients :
        LET r == reqs[c]
        IN  /\ Answered(c)
            /\ r.route = "list"
            /\ Len(InboundList(r)) = 3
            /\ Len(r.attempts) = 2
            /\ \A i \in 1..2 : r.attempts[i].outcome = "responded" /\ r.attempts[i].status >= 400

====
